---- MODULE Spec2Model ----
(***************************************************************************)
(* Verification model of the repository connection layer (package repo,    *)
(* src/cli/app.go lines 41-698): the upgrade-lock monitor wrapped around   *)
(* the blob storage, the feature-compatibility gate and the steps of       *)
(* openWithConfig with its open-time wait for the upgrade lock.            *)
(*                                                                         *)
(* Three specifications share the variables:                               *)
(*   Spec      the upgrade-lock monitor of one opened handle, called by    *)
(*             NumCallers concurrent callers (upgradeLockMonitor)          *)
(*   SpecGate  handleMissingRequiredFeatures as a function of its inputs   *)
(*   SpecOpen  openWithConfig, one open call from start to return          *)
(*   FairOpen  SpecOpen with the fairness of a running goroutine           *)
(***************************************************************************)
EXTENDS Integers, Sequences, FiniteSets, TLC

\* ---------------------------------------------------------------- bounds
\* number of goroutines issuing storage operations through one handle
NumCallers == 2
\* the clock runs over 0..MaxTime
MaxTime == 1
\* the format revisions (LoadedTime values) run over 1..MaxRev
MaxRev == 2
\* longest list of required features drawn for the gate
MaxReq == 2
\* the attempt and sleep counters of the retry loop saturate here
MaxAttempts == 2
\* blob ids given to the retention wrapper have at most MaxIdLen tokens
MaxIdLen == 2
\* the rates of throttling limits run up to MaxRate
MaxRate == 2
\* a repository is opened at most MaxOpens times, one open after the other
MaxOpens == 2
\* up to MaxHandles repository handles share one closer, and Close is called
\* on a handle at most MaxCloses times
MaxHandles == 3
MaxCloses == 2
\* a gather.Bytes holds at most MaxBytes bytes in at most MaxSlices slices;
\* the string of invalidSliceBuf has UuidLen bytes
MaxBytes == 3
MaxSlices == 3
UuidLen == 2
\* the target directory holds files of the collision indexes 0..MaxExisting
MaxExisting == 2
\* the opens of the repository that one process makes
NumOpeners == 3
\* the Write calls that pem.Encode makes on the pipe
MaxChunks == 3
\* the calls of the kill function that RunSubcommand returned
MaxKills == 2

Callers == 1..NumCallers
Times == 0..MaxTime
Revs == 1..MaxRev

Min(a, b) == IF a < b THEN a ELSE b

\* ------------------------------------------------------------ data model
\* Options.UpgradeOwnerID values of a handle, and owners of a lock intent
HandleOwners == {"", "alice"}
IntentOwners == {"alice"}

\* *format.UpgradeLockIntent: nil, or an owner with the time the lock starts
NilIntent == [nil |-> TRUE, OwnerID |-> "", LockTime |-> 0]
Intents == {NilIntent} \cup
           {[nil |-> FALSE, OwnerID |-> o, LockTime |-> t] : o \in IntentOwners, t \in Times}

\* (*UpgradeLockIntent).IsLocked(now): a nil intent is never locked; a placed
\* intent is locked from its lock time on
IsLocked(uli, t) == ~uli.nil /\ t >= uli.LockTime

\* feature.Required: a feature name and its IfNotUnderstood.Warn policy
FeatureNames == {"index-v1", "index-v2", "index-v3"}
RequiredFeature == [Feature : FeatureNames, Warn : BOOLEAN]

\* var supportedFeatures
supportedFeatures == {"index-v1", "index-v2"}

\* errors
ErrNone == "nil"
ErrRepositoryUnavailableDueToUpgradeInProgress == "repository upgrade in progress"
ErrUpgradeLockIntent == "upgrade lock intent"
ErrRequiredFeatures == "required features"
ErrUnsupportedFeature == "unsupported feature"
ErrCancelled == "context canceled"
ErrFormatManager == "unable to create format manager"
ErrThrottler == "unable to add throttler"
ErrBlobCfg == "blob configuration"
ErrManagers == "unable to create managers"
ErrStorageNotSet == "storage not set in the configuration file"
ErrCannotOpenStorage == "cannot open storage"
ErrProfileBuffers == "unable to setup profile buffers"
ErrOpenWithConfig == "openWithConfig failed"
ErrReadOnly == "storage is read-only"
ErrBlobNotFound == "BLOB not found"
ErrBaseIO == "base store I/O error"
ErrLoadConfig == "error loading config file"
ErrCannotWriteToRepoConnectionWithPermissiveCacheLoading ==
    "cannot write to repo connection with permissive cache loading"
ErrWriteConfig == "error writing config file"
ErrInvalidLimits == "invalid limits"
ErrInvalidOffset == "invalid offset"
ErrInvalidSeek == "invalid seek"
ErrWriter == "some error"
EOF == "EOF"
ErrRetriesExhausted == "unable to complete despite retries"

\* ------------------------------------------------------- feature gate
\* feature.GetUnsupportedFeatures(required, supported): the required features
\* whose name is not in the supported list, in the order of `required`
GetUnsupportedFeatures(required, supported) ==
    SelectSeq(required, LAMBDA r : r.Feature \notin supported)

\* variant: the loop ends (break) at the first feature that is only logged
MissingFeaturesLoop_StopsAtWarning(missing, ignoreErrors, warned) ==
    IF missing = <<>>
    THEN [err |-> ErrNone, warned |-> warned]
    ELSE IF ignoreErrors \/ Head(missing).Warn
         THEN [err |-> ErrNone, warned |-> Append(warned, Head(missing).Feature)]
         ELSE [err |-> ErrUnsupportedFeature, warned |-> warned]

\* the loop of handleMissingRequiredFeatures over the missing features: a
\* feature that is ignored or warn-only is logged and the loop goes on, the
\* first other feature ends the loop with an error
RECURSIVE MissingFeaturesLoop(_, _, _)
MissingFeaturesLoop(missing, ignoreErrors, warned) ==
    IF missing = <<>>
    THEN [err |-> ErrNone, warned |-> warned]
    ELSE IF ignoreErrors \/ Head(missing).Warn
         THEN MissingFeaturesLoop(Tail(missing), ignoreErrors,
                                  Append(warned, Head(missing).Feature))
         ELSE [err |-> ErrUnsupportedFeature, warned |-> warned]

\* handleMissingRequiredFeatures(ctx, fmgr, ignoreErrors); readOK says whether
\* fmgr.RequiredFeatures() returned the list or an error
handleMissingRequiredFeatures(readOK, required, supported, ignoreErrors) ==
    IF ~readOK
    THEN [err |-> ErrRequiredFeatures, warned |-> <<>>]
    ELSE MissingFeaturesLoop(GetUnsupportedFeatures(required, supported),
                             ignoreErrors, <<>>)

\* ------------------------------------------------------------ variables
VARIABLES
    \* the format manager (fmgr): cached upgrade lock intent, cached required
    \* features and LoadedTime
    fmLock, fmReq, fmLoaded,
    \* the clock behind now()
    now,
    \* the configuration of the opened handle
    upgradeOwnerID, ignoreMissing,
    \* upgradeLockMonitor: lastCheckTime and the sync.RWMutex m
    lastCheckTime, mReaders, mWriter,
    \* each caller's position in the callback, its ltime, uli and result, and
    \* the error it handed to onFatalError
    pc, ltime, uli, err, fatalErr,
    \* history: how a caller passed the callback and whether the check its pass
    \* rests on found the intent free for this handle; the same for the check
    \* that wrote lastCheckTime; the LoadedTime at a caller's fetch; the
    \* LoadedTime at the last refusal because of the lock (0 after a reload) and
    \* whether it was still the LoadedTime of the refused caller's fetch; the
    \* ltime values an intent fetch was issued for
    via, basisOK, lastOK, fetchRev, refusedRev, refusedFresh, fetched,
    \* one call of handleMissingRequiredFeatures: whether the read of the
    \* required features succeeds, the list read, the supported features, the
    \* ignore flag, and the result once the call has returned
    gReadOK, gRequired, gSupported, gIgnore, gDone, gResult,
    \* one call of openWithConfig: its options (DoNotWaitForUpgrade,
    \* PermissiveCacheLoading, retention enabled in the blob configuration),
    \* its position, the wrappers around st so far (innermost first), the other
    \* components created so far, whether a Put or Delete was issued, the
    \* returned error, whether ctx is cancelled, and the retry loop's counters
    doNotWait, permissive, retention,
    opc, layers, created, mutated, oErr, cancelled, attempts, sleeps,
    \* one call of openDirect: whether the open came through openDirect, its
    \* Options.TraceStorage and LocalConfig.ReadOnly, and whether the base
    \* storage exists and is not closed
    direct, traceStorage, readOnly, baseOpen,
    \* the base store (blob id -> the PutOptions it was written with, or
    \* Absent) and the storage call in flight through the wrappers
    store, call,
    \* throttling: ClientOptions.Throttling (set or nil), the connection info
    \* the store advertises (whether its Config marshals, whether the JSON
    \* parses into Limits, and the limits parsed), and the limits in effect
    override, ciCfg, limits,
    \* the throttler of an opened repository: the tokens in the bucket of each
    \* rate, the Throttling entry of the config file, and the last UpdateLimits
    \* call (the error of its callback, its own error, whether the config file
    \* was written) with the last limits that UpdateLimits took as valid
    tokens, cfgFile, upd,
    \* the key material of the repository format (what SupportsPasswordChange,
    \* GetHmacSecret, FormatEncryptionKey and UniqueID return) and the cache
    \* HMAC secrets that the opens of the repository derived, in their order
    fmKeys, secrets,
    \* the refCountedCloser of an opened repository: the release functions
    \* that fail, the reference count, the state of each handle, the release
    \* functions run so far with the errors collected, the handle whose Close runs
    \* them, and per handle the number of Close calls that returned, the
    \* result of the first and of the latest
    closer,
    \* package gather: the global invalidSliceBuf; one Bytes value (Slices and
    \* sliceBuf[0]) and whether invalidate() was called on it; the offset of
    \* a bytesReadSeekCloser and the position i of a ReaderWrapper over it;
    \* the last call on any of them with its arguments and results
    invalidSliceBuf, gb, invalidated, rdr, gres,
    \* package pems: the names in the target directory that were there before,
    \* the names that CreateOutFile created, and the last CreateOutFile call
    pemdir,
    \* the opens of one process through openDirect: the opener whose CPU
    \* profile runs (0: none) and, for each opener, its position, its base
    \* storage, whether its ProfileBuffers are configured, and its error
    od,
    \* one call of DumpPem with its encoding goroutine and the pipe
    dump,
    \* one call of App.RunSubcommand with its goroutine and its channels
    sub

envVars == <<fmLock, fmReq, fmLoaded, now>>
cfgVars == <<upgradeOwnerID, ignoreMissing>>
monVars == <<lastCheckTime, mReaders, mWriter, pc, ltime, uli, err, fatalErr,
             via, basisOK, lastOK, fetchRev, refusedRev, refusedFresh, fetched>>

gateVars == <<gReadOK, gRequired, gSupported, gIgnore, gDone, gResult>>
openVars == <<doNotWait, permissive, retention,
              opc, layers, created, mutated, oErr, cancelled, attempts, sleeps, limits>>

dirVars == <<direct, traceStorage, readOnly, baseOpen>>

\* the variables outside the monitor, the gate call and openWithConfig
chainVars == <<store, call>>

\* the variables that neither openDirect nor an earlier part touches
thrCfgVars == <<override, ciCfg>>

updVars == <<tokens, cfgFile, upd>>

secVars == <<fmKeys, secrets>>

\* the variables of the parts that stand apart from the open of a repository
gatherVars == <<invalidSliceBuf, gb, invalidated, rdr, gres>>

lateVars == <<od, dump, sub>>

moreVars == <<closer, gatherVars, pemdir, lateVars>>

restVars == <<chainVars, thrCfgVars, updVars, secVars, moreVars>>

extVars == <<dirVars, restVars>>

vars == <<envVars, cfgVars, monVars, gateVars, openVars, extVars>>

\* throttling.Limits: a negative rate is not a valid limit
Rates == -1..MaxRate
Limits == [ReadsPerSecond : Rates, WritesPerSecond : Rates]

\* throttling.Limits{}: no limit
ZeroLimits == [ReadsPerSecond |-> 0, WritesPerSecond |-> 0]

\* values of the variables of a part that a specification does not run
NoResult == [err |-> ErrNone, warned |-> <<>>]

GateIdle ==
    /\ gReadOK = TRUE
    /\ gRequired = <<>>
    /\ gSupported = supportedFeatures
    /\ gIgnore = FALSE
    /\ gDone = FALSE
    /\ gResult = NoResult

OpenIdle ==
    /\ doNotWait = FALSE
    /\ permissive = FALSE
    /\ retention = FALSE
    /\ opc = "opened"
    /\ layers = <<>>
    /\ created = {}
    /\ mutated = FALSE
    /\ oErr = ErrNone
    /\ cancelled = FALSE
    /\ attempts = 0
    /\ sleeps = 0
    /\ limits = ZeroLimits

\* openWithConfig is called with a storage that its caller made
DirIdle ==
    /\ direct = FALSE
    /\ traceStorage = FALSE
    /\ readOnly = FALSE
    /\ baseOpen = TRUE

\* blob ids are sequences of tokens; the ids a storage call can name
ChainIDs == {<<"p", "s">>, <<"s", "p">>, <<"kopia.", "repository">>}

\* the store holds no blob under an id
Absent == [RetentionMode |-> "absent", RetentionPeriod |-> 0, DoNotRecreate |-> FALSE]

\* the result of a storage call: its error and the blob ids it returned (the
\* id read by a Get, the ids listed by a List)
Result(e, v) == [err |-> e, val |-> v]

NoOpts == [RetentionMode |-> "", RetentionPeriod |-> 0, DoNotRecreate |-> FALSE]

\* no storage call is in flight
NoCall == [op |-> "none", id |-> <<>>, opts |-> NoOpts, orig |-> NoOpts, pos |-> 0,
           phase |-> "done", res |-> Result("nil", {}), by |-> "", before |-> [id \in ChainIDs |-> Absent]]

ChainIdle ==
    /\ store = [id \in ChainIDs |-> Absent]
    /\ call = NoCall

\* no override, and connection info that parses into the zero limits
ThrIdle ==
    /\ override = [set |-> FALSE, limits |-> ZeroLimits]
    /\ ciCfg = [marshalOK |-> TRUE, parseOK |-> TRUE, limits |-> ZeroLimits]

\* the Throttling entry of a config file: nil, or limits
NoThrottling == [set |-> FALSE, limits |-> ZeroLimits]

\* no UpdateLimits call was made
NoUpdate == [arg |-> ZeroLimits, cb |-> "nil", err |-> "nil", wrote |-> FALSE]

UpdIdle ==
    /\ tokens = [f \in DOMAIN ZeroLimits |-> 0]
    /\ cfgFile = NoThrottling
    /\ upd = NoUpdate

\* the key material of a repository format
KeyBytes == {"k1", "k2"}
UniqueIDs == {"u1", "u2"}
FormatKeys == [SupportsPasswordChange : BOOLEAN, HmacSecret : KeyBytes,
               FormatEncryptionKey : KeyBytes, UniqueID : UniqueIDs]

SecIdle ==
    /\ fmKeys = [SupportsPasswordChange |-> TRUE, HmacSecret |-> "k1",
                 FormatEncryptionKey |-> "k2", UniqueID |-> "u1"]
    /\ secrets = <<>>

Handles == 1..MaxHandles

\* no handle exists
NoCloser == [failing |-> {}, refs |-> 0, hstate |-> [h \in Handles |-> "none"],
             ran |-> <<>>, errs |-> <<>>, releaser |-> 0,
             calls |-> [h \in Handles |-> 0],
             first |-> [h \in Handles |-> <<>>],
             last |-> [h \in Handles |-> <<>>]]

\* a writer: the number of the Write call that fails (0: none), the Write
\* calls made and the bytes written
NewWriter(failAt) == [failAt |-> failAt, writes |-> 0, written |-> <<>>]

\* no call was made
NoGatherCall == [op |-> "none", a1 |-> 0, a2 |-> 0, panic |-> FALSE, n |-> 0,
                 err |-> "nil", w |-> NewWriter(0), p |-> <<>>, before |-> 0]

GatherIdle ==
    /\ invalidSliceBuf = <<>>
    /\ gb = [Slices |-> <<>>, sliceBuf |-> <<>>]
    /\ invalidated = FALSE
    /\ rdr = [offset |-> 0, i |-> 0]
    /\ gres = NoGatherCall

\* an error of os.OpenFile (nil: none) and whether fmt.Errorf wraps it
NilError == [kind |-> "nil", wrapped |-> FALSE]

NoPemCall == [blknm |-> "", f |-> <<>>, err |-> NilError, tries |-> 0, failAt |-> 0]

PemIdle == pemdir = [old |-> {}, made |-> {}, res |-> NoPemCall]

Openers == 1..NumOpeners

NoOpen == [pc |-> "idle", st |-> "none", configured |-> FALSE, err |-> ErrNone]

OdIdle == od = [cpu |-> 0, o |-> [i \in Openers |-> NoOpen]]

DumpIdle == dump = [pc |-> "none"]

SubIdle == sub = [pc |-> "none"]

LateIdle == OdIdle /\ DumpIdle /\ SubIdle

MoreIdle ==
    /\ closer = NoCloser
    /\ GatherIdle
    /\ PemIdle
    /\ LateIdle

RestIdle == ChainIdle /\ ThrIdle /\ UpdIdle /\ SecIdle /\ MoreIdle

ExtIdle == DirIdle /\ RestIdle

\* required-feature lists a format reload can bring in
MonReqs == { <<>>, <<[Feature |-> "index-v3", Warn |-> FALSE]>> }

\* ------------------------------------------------------------ environment
\* the format manager reloads the format blob: a new LoadedTime, and whatever
\* lock intent and required features the repository holds now
ReloadTo(S) ==
    /\ fmLoaded < MaxRev
    /\ fmLoaded' = fmLoaded + 1
    /\ \E l \in S : fmLock' = l
    /\ \E r \in MonReqs : fmReq' = r
    /\ UNCHANGED now

Reload == ReloadTo(Intents)

\* the clock advances
Tick ==
    /\ now < MaxTime
    /\ now' = now + 1
    /\ UNCHANGED <<fmLock, fmReq, fmLoaded>>

EnvInit ==
    /\ fmLock \in Intents
    /\ fmReq = <<>>
    /\ fmLoaded = 1
    /\ now = 0

\* --------------------------------------------------- upgradeLockMonitor
\* variant: the comparison under the read lock never succeeds
FirstCheck_Never(last, loaded) == FALSE

\* lastCheckTime.Equal(fmgr.LoadedTime()) under the read lock (line 642)
FirstCheck(last, loaded) == last = loaded

\* variant: the comparison under the write lock is left out
SecondCheck_Skipped(last, lt) == FALSE

\* lastCheckTime.Equal(ltime) under the write lock (line 654)
SecondCheck(last, lt) == last = lt

\* variant: the owner comparison is inverted
RefusedByLock_OwnerInverted(u, t, owner) == ~u.nil /\ IsLocked(u, t) /\ owner = u.OwnerID

\* lines 668-673: the operation is refused iff the fetched intent is not nil,
\* is locked at now() and belongs to another owner
RefusedByLock(u, t, owner) == ~u.nil /\ IsLocked(u, t) /\ owner # u.OwnerID

\* variant: ltime is recorded before the owner test
LastCheckAfter_Always(refused, last, lt) == lt

\* lines 670-675: lastCheckTime after the owner test: ltime is recorded only
\* when the operation was not refused
LastCheckAfter(refused, last, lt) == IF refused THEN last ELSE lt

\* the intent u is locked at t by somebody who is not this handle's owner
ForeignLocked(u, t) == ~u.nil /\ t >= u.LockTime /\ u.OwnerID # upgradeOwnerID

\* variant: a reader does not wait for the writer
CanRLock_Always(writer) == TRUE

\* sync.RWMutex: m.RLock() (line 640) proceeds when no writer holds m
CanRLock(writer) == writer = 0

\* sync.RWMutex: m.Lock() (line 649) proceeds when nobody holds m
CanLock(readers, writer) == writer = 0 /\ readers = {}

\* variant: the monitor starts with the loaded revision taken as verified
MonInit_Verified ==
    /\ lastCheckTime = fmLoaded
    /\ mReaders = {}
    /\ mWriter = 0
    /\ pc = [c \in Callers |-> "idle"]
    /\ ltime = [c \in Callers |-> 0]
    /\ uli = [c \in Callers |-> NilIntent]
    /\ err = [c \in Callers |-> ErrNone]
    /\ fatalErr = [c \in Callers |-> ErrNone]
    /\ via = [c \in Callers |-> "none"]
    /\ basisOK = [c \in Callers |-> FALSE]
    /\ lastOK = FALSE
    /\ fetchRev = [c \in Callers |-> 0]
    /\ refusedRev = 0
    /\ refusedFresh = FALSE
    /\ fetched = {}

\* lines 634-637: lastCheckTime starts as the zero time.Time, m unlocked
MonInit ==
    /\ lastCheckTime = 0
    /\ mReaders = {}
    /\ mWriter = 0
    /\ pc = [c \in Callers |-> "idle"]
    /\ ltime = [c \in Callers |-> 0]
    /\ uli = [c \in Callers |-> NilIntent]
    /\ err = [c \in Callers |-> ErrNone]
    /\ fatalErr = [c \in Callers |-> ErrNone]
    /\ via = [c \in Callers |-> "none"]
    /\ basisOK = [c \in Callers |-> FALSE]
    /\ lastOK = FALSE
    /\ fetchRev = [c \in Callers |-> 0]
    /\ refusedRev = 0
    /\ refusedFresh = FALSE
    /\ fetched = {}

\* a storage operation enters the callback: m.RLock() (line 640)
RLock(c) ==
    /\ pc[c] = "idle"
    /\ CanRLock(mWriter)
    /\ mReaders' = mReaders \cup {c}
    /\ pc' = [pc EXCEPT ![c] = "rlocked"]
    /\ UNCHANGED <<gateVars, openVars>>
    /\ UNCHANGED <<extVars, envVars, cfgVars, lastCheckTime, mWriter, ltime, uli, err, fatalErr,
                   via, basisOK, lastOK, fetchRev, refusedRev, refusedFresh, fetched>>

\* lines 642-646: compare under the read lock, RUnlock, return nil or go on
FastPath(c) ==
    /\ pc[c] = "rlocked"
    /\ mReaders' = mReaders \ {c}
    /\ IF FirstCheck(lastCheckTime, fmLoaded)
       THEN /\ pc' = [pc EXCEPT ![c] = "pass"]
            /\ via' = [via EXCEPT ![c] = "fast"]
            /\ basisOK' = [basisOK EXCEPT ![c] = lastOK]
       ELSE /\ pc' = [pc EXCEPT ![c] = "wantLock"]
            /\ UNCHANGED <<via, basisOK>>
    /\ UNCHANGED <<gateVars, openVars>>
    /\ UNCHANGED <<extVars, envVars, cfgVars, lastCheckTime, mWriter, ltime, uli, err, fatalErr,
                   lastOK, fetchRev, refusedRev, refusedFresh, fetched>>

\* m.Lock() (line 649): exclusive, waits for readers and the writer to leave
Lock(c) ==
    /\ pc[c] = "wantLock"
    /\ CanLock(mReaders, mWriter)
    /\ mWriter' = c
    /\ pc' = [pc EXCEPT ![c] = "locked"]
    /\ UNCHANGED <<gateVars, openVars>>
    /\ UNCHANGED <<extVars, envVars, cfgVars, lastCheckTime, mReaders, ltime, uli, err, fatalErr,
                   via, basisOK, lastOK, fetchRev, refusedRev, refusedFresh, fetched>>

\* lines 652-656: ltime := fmgr.LoadedTime(); already checked: return nil
\* (the deferred m.Unlock() runs at every return of the locked part)
Recheck(c) ==
    /\ pc[c] = "locked"
    /\ IF SecondCheck(lastCheckTime, fmLoaded)
       THEN /\ pc' = [pc EXCEPT ![c] = "pass"]
            /\ via' = [via EXCEPT ![c] = "recheck"]
            /\ basisOK' = [basisOK EXCEPT ![c] = lastOK]
            /\ mWriter' = 0
            /\ UNCHANGED ltime
       ELSE /\ pc' = [pc EXCEPT ![c] = "fetch"]
            /\ ltime' = [ltime EXCEPT ![c] = fmLoaded]
            /\ UNCHANGED <<via, basisOK, mWriter>>
    /\ UNCHANGED <<gateVars, openVars>>
    /\ UNCHANGED <<extVars, envVars, cfgVars, lastCheckTime, mReaders, uli, err, fatalErr,
                   lastOK, fetchRev, refusedRev, refusedFresh, fetched>>

\* lines 658-661: uli, err := fmgr.UpgradeLockIntent(), which can fail; a
\* return from the callback ends the life of its locals ltime and uli
Fetch(c) ==
    /\ pc[c] = "fetch"
    /\ \E ok \in BOOLEAN :
         IF ok
         THEN /\ uli' = [uli EXCEPT ![c] = fmLock]
              /\ fetchRev' = [fetchRev EXCEPT ![c] = fmLoaded]
              /\ pc' = [pc EXCEPT ![c] = "gate"]
              /\ UNCHANGED <<err, mWriter, ltime>>
         ELSE /\ err' = [err EXCEPT ![c] = ErrUpgradeLockIntent]
              /\ pc' = [pc EXCEPT ![c] = "failed"]
              /\ mWriter' = 0
              /\ ltime' = [ltime EXCEPT ![c] = 0]
              /\ UNCHANGED <<uli, fetchRev>>
    /\ fetched' = fetched \cup {ltime[c]}
    /\ UNCHANGED <<gateVars, openVars>>
    /\ UNCHANGED <<extVars, envVars, cfgVars, lastCheckTime, mReaders, fatalErr,
                   via, basisOK, lastOK, refusedRev, refusedFresh>>

\* variant: the error is returned without a call of onFatalError
GateFailure_NoFatal(e) == [fatal |-> ErrNone, ret |-> e]

\* variant: onFatalError is called and the callback goes on as if nothing failed
GateFailure_NoReturn(e) == [fatal |-> e, ret |-> ErrNone]

\* lines 664-665: onFatalError(err); return err: the error handed to the
\* callback and the error returned (the callback given in Options returns;
\* the default of Open, lines 156-161, ends the process instead)
GateFailure(e) == [fatal |-> e, ret |-> e]

\* lines 663-666: the feature gate is run again (its read of the required
\* features can fail); on an error onFatalError is called and the error returned
Gate(c) ==
    /\ pc[c] = "gate"
    /\ \E readOK \in BOOLEAN :
         LET g == handleMissingRequiredFeatures(readOK, fmReq, supportedFeatures, ignoreMissing)
         IN  IF g.err # ErrNone
             THEN /\ fatalErr' = [fatalErr EXCEPT ![c] = GateFailure(g.err).fatal]
                  /\ err' = [err EXCEPT ![c] = GateFailure(g.err).ret]
                  /\ pc' = [pc EXCEPT ![c] = "failed"]
                  /\ mWriter' = 0
                  /\ ltime' = [ltime EXCEPT ![c] = 0]
                  /\ uli' = [uli EXCEPT ![c] = NilIntent]
                  /\ fetchRev' = [fetchRev EXCEPT ![c] = 0]
             ELSE /\ pc' = [pc EXCEPT ![c] = "decide"]
                  /\ UNCHANGED <<fatalErr, err, mWriter, ltime, uli, fetchRev>>
    /\ UNCHANGED <<gateVars, openVars>>
    /\ UNCHANGED <<extVars, envVars, cfgVars, lastCheckTime, mReaders,
                   via, basisOK, lastOK, refusedRev, refusedFresh, fetched>>

\* lines 668-677: the owner test at now(), then lastCheckTime = ltime
Decide(c) ==
    /\ pc[c] = "decide"
    /\ mWriter' = 0
    /\ ltime' = [ltime EXCEPT ![c] = 0]
    /\ uli' = [uli EXCEPT ![c] = NilIntent]
    /\ fetchRev' = [fetchRev EXCEPT ![c] = 0]
    /\ LET refused == RefusedByLock(uli[c], now, upgradeOwnerID)
           last == LastCheckAfter(refused, lastCheckTime, ltime[c])
       IN  /\ lastCheckTime' = last
           /\ lastOK' = IF last # lastCheckTime THEN ~ForeignLocked(uli[c], now) ELSE lastOK
           /\ IF refused
              THEN /\ err' = [err EXCEPT ![c] = ErrRepositoryUnavailableDueToUpgradeInProgress]
                   /\ pc' = [pc EXCEPT ![c] = "failed"]
                   /\ refusedRev' = fmLoaded
                   /\ refusedFresh' = (fetchRev[c] = fmLoaded)
                   /\ UNCHANGED <<via, basisOK>>
              ELSE /\ pc' = [pc EXCEPT ![c] = "pass"]
                   /\ via' = [via EXCEPT ![c] = "check"]
                   /\ basisOK' = [basisOK EXCEPT ![c] = ~ForeignLocked(uli[c], now)]
                   /\ UNCHANGED <<err, refusedRev, refusedFresh>>
    /\ UNCHANGED <<gateVars, openVars>>
    /\ UNCHANGED <<extVars, envVars, cfgVars, mReaders, fatalErr, fetched>>

\* beforeop: the callback returned nil, the operation runs on the wrapped storage
Delegate(c) ==
    /\ pc[c] = "pass"
    /\ pc' = [pc EXCEPT ![c] = "delegated"]
    /\ UNCHANGED <<gateVars, openVars>>
    /\ UNCHANGED <<extVars, envVars, cfgVars, lastCheckTime, mReaders, mWriter, ltime, uli, err,
                   fatalErr, via, basisOK, lastOK, fetchRev, refusedRev, refusedFresh, fetched>>

\* the storage operation returns to its caller (its result or the callback's error)
Return(c) ==
    /\ pc[c] \in {"delegated", "failed"}
    /\ pc' = [pc EXCEPT ![c] = "idle"]
    /\ err' = [err EXCEPT ![c] = ErrNone]
    /\ fatalErr' = [fatalErr EXCEPT ![c] = ErrNone]
    /\ via' = [via EXCEPT ![c] = "none"]
    /\ basisOK' = [basisOK EXCEPT ![c] = FALSE]
    /\ UNCHANGED <<gateVars, openVars>>
    /\ UNCHANGED <<extVars, envVars, cfgVars, lastCheckTime, mReaders, mWriter, ltime, uli,
                   lastOK, fetchRev, refusedRev, refusedFresh, fetched>>

\* a reload ends the revision of the last refusal
EnvStep ==
    \/ /\ Reload
       /\ refusedRev' = 0
       /\ refusedFresh' = FALSE
       /\ UNCHANGED <<extVars, cfgVars, lastCheckTime, mReaders, mWriter, pc, ltime, uli, err,
                      fatalErr, via, basisOK, lastOK, fetchRev, fetched>>
       /\ UNCHANGED <<gateVars, openVars>>
    \/ /\ Tick
       /\ UNCHANGED <<extVars, cfgVars, monVars, gateVars, openVars>>

Init ==
    /\ EnvInit
    /\ upgradeOwnerID \in HandleOwners
    /\ ignoreMissing = FALSE
    /\ MonInit
    /\ GateIdle
    /\ OpenIdle
    /\ ExtIdle

Next ==
    \/ \E c \in Callers : RLock(c)
    \/ \E c \in Callers : FastPath(c)
    \/ \E c \in Callers : Lock(c)
    \/ \E c \in Callers : Recheck(c)
    \/ \E c \in Callers : Fetch(c)
    \/ \E c \in Callers : Gate(c)
    \/ \E c \in Callers : Decide(c)
    \/ \E c \in Callers : Delegate(c)
    \/ \E c \in Callers : Return(c)
    \/ EnvStep

Spec == Init /\ [][Next]_vars

\* ------------------------------------- handleMissingRequiredFeatures alone
\* all lists of at most n required features
RECURSIVE SeqsUpTo(_, _)
SeqsUpTo(S, n) ==
    IF n = 0 THEN {<<>>}
    ELSE LET shorter == SeqsUpTo(S, n - 1)
         IN  shorter \cup {Append(q, x) : q \in shorter, x \in S}

GateInit ==
    /\ gReadOK \in BOOLEAN
    /\ gRequired \in SeqsUpTo(RequiredFeature, MaxReq)
    /\ gSupported \in SUBSET FeatureNames
    /\ gIgnore \in BOOLEAN
    /\ gDone = FALSE
    /\ gResult = NoResult

\* the call returns its result
GateCall ==
    /\ ~gDone
    /\ gDone' = TRUE
    /\ gResult' = handleMissingRequiredFeatures(gReadOK, gRequired, gSupported, gIgnore)
    /\ UNCHANGED <<gReadOK, gRequired, gSupported, gIgnore>>
    /\ UNCHANGED <<extVars, envVars, cfgVars, monVars, openVars>>

InitGate ==
    /\ EnvInit /\ fmLock = NilIntent
    /\ upgradeOwnerID = "" /\ ignoreMissing = FALSE
    /\ MonInit
    /\ OpenIdle
    /\ ExtIdle
    /\ GateInit

NextGate == GateCall

SpecGate == InitGate /\ [][NextGate]_vars

\* ------------------------------------------------------- openWithConfig
\* the statements of openWithConfig in their order: the format manager over the
\* metrics wrapper (441-447), the feature gate (449-452), the cache secret
\* (454-459), the throttler (461-480), the blob configuration and the retention
\* wrapper (482-489), the wait for the upgrade lock (491-512), the monitor
\* (514-517), the managers (519-537), the closer and the repository (539-570)
OpenOrder == <<"format", "gate", "secret", "throttle", "blobcfg", "wait",
               "monitor", "managers", "finish">>

\* variant: the feature gate is run only after the managers exist
OpenOrder_GateLate == <<"format", "secret", "throttle", "blobcfg", "wait",
                        "monitor", "managers", "gate", "finish">>

\* the wrappers around a storage, innermost first; each statement that wraps
\* st puts one more wrapper around what st was
\* openDirect, lines 411-413: the logging wrapper, if Options.TraceStorage
WithTracing(st, trace) == IF trace THEN Append(st, "tracing") ELSE st

\* variant: the read-only wrapper is left out
WithReadOnly_Never(st, ro) == st

\* openDirect, lines 415-417: the read-only wrapper, if LocalConfig.ReadOnly
WithReadOnly(st, ro) == IF ro THEN Append(st, "readonly") ELSE st

\* variant: the metrics wrapper is put under everything st already holds
WithMetrics_Innermost(st) == <<"metrics">> \o st

\* openWithConfig, line 442: the metrics wrapper
WithMetrics(st) == Append(st, "metrics")

\* addThrottler, line 623: the throttling wrapper
WithThrottling(st) == Append(st, "throttling")

\* lines 487-489: the retention wrapper, if the blob configuration enables it
WithRetention(st, enabled) == IF enabled THEN Append(st, "retention") ELSE st

\* lines 514-517: the upgrade-lock monitor, unless PermissiveCacheLoading
WithMonitor(st, perm) == IF ~perm THEN Append(st, "monitor") ELSE st

\* the statement that follows p in a list of statements
NextIn(order, p) ==
    LET i == CHOOSE k \in 1..Len(order) : order[k] = p
    IN  IF i = Len(order) THEN "opened" ELSE order[i + 1]

StepAfter_GateLate(p) == NextIn(OpenOrder_GateLate, p)

StepAfter(p) == NextIn(OpenOrder, p)

\* the retry count handed to retry.WithExponentialBackoffMaxRetries (line 491)
waitMaxRetries == -1

\* retry loop: attempt number i (from 0) is made iff i < count or count < 0
RetryAllowed(i, count) == count < 0 \/ i < count

\* variant: ctx.Err() is not looked at between the attempts
CtxDone_Ignored(isCancelled) == FALSE

\* retry loop: ctx.Err() is read at the start of every iteration
CtxDone(isCancelled) == isCancelled

\* variant: the opt-out is forgotten, every upgrade-in-progress error is retried
IsRetriable_NoOptOut(noWait, e) == e = ErrRepositoryUnavailableDueToUpgradeInProgress

\* variant: every error of an attempt is retried unless the caller opted out
IsRetriable_AnyError(noWait, e) == ~noWait

\* variant: the negation of DoNotWaitForUpgrade is dropped
IsRetriable_Inverted(noWait, e) ==
    noWait /\ e = ErrRepositoryUnavailableDueToUpgradeInProgress

\* lines 507-509: the error of an attempt is retried iff the caller did not opt
\* out and it is the upgrade-in-progress error
IsRetriable(noWait, e) ==
    ~noWait /\ e = ErrRepositoryUnavailableDueToUpgradeInProgress

\* variant: the owner is not compared
AttemptResult_NoOwner(fetchOK, perm, u, t, owner) ==
    IF ~fetchOK THEN ErrUpgradeLockIntent
    ELSE IF ~perm /\ IsLocked(u, t)
         THEN ErrRepositoryUnavailableDueToUpgradeInProgress
         ELSE ErrNone

\* lines 491-506: one attempt of the wait: the intent fetch can fail; without
\* PermissiveCacheLoading an intent locked at now() by another owner gives the
\* upgrade-in-progress error
AttemptResult(fetchOK, perm, u, t, owner) ==
    IF ~fetchOK THEN ErrUpgradeLockIntent
    ELSE IF ~perm /\ IsLocked(u, t) /\ owner # u.OwnerID
         THEN ErrRepositoryUnavailableDueToUpgradeInProgress
         ELSE ErrNone

\* lock intents met by an open: owned by alice or by bob
OpenIntents == Intents \cup
    {[nil |-> FALSE, OwnerID |-> "bob", LockTime |-> t] : t \in Times}

OpenInit ==
    /\ doNotWait \in BOOLEAN
    /\ permissive \in BOOLEAN
    /\ retention \in BOOLEAN
    /\ opc = "format"
    /\ layers = <<>>
    /\ created = {}
    /\ mutated = FALSE
    /\ oErr = ErrNone
    /\ cancelled = FALSE
    /\ attempts = 0
    /\ sleeps = 0
    /\ limits = ZeroLimits

\* openWithConfig returns the error e
OpenFails(e) ==
    /\ opc' = "failed"
    /\ oErr' = e

\* lines 441-447: metrics registry, metrics wrapper, format.NewManager
OpenFormat ==
    /\ opc = "format"
    /\ layers' = WithMetrics(layers)
    /\ \E ok \in BOOLEAN :
         IF ok
         THEN /\ opc' = StepAfter("format")
              /\ created' = created \cup {"registry", "fmgr"}
              /\ UNCHANGED oErr
         ELSE /\ OpenFails(ErrFormatManager)
              /\ created' = created \cup {"registry"}
    /\ UNCHANGED <<limits, doNotWait, permissive, retention, mutated, cancelled, attempts, sleeps>>
    /\ UNCHANGED <<extVars, envVars, cfgVars, monVars, gateVars>>

\* lines 449-452: the feature gate
OpenGate ==
    /\ opc = "gate"
    /\ \E readOK \in BOOLEAN :
         LET g == handleMissingRequiredFeatures(readOK, fmReq, supportedFeatures, ignoreMissing)
         IN  IF g.err # ErrNone
             THEN OpenFails(g.err)
             ELSE opc' = StepAfter("gate") /\ UNCHANGED oErr
    /\ UNCHANGED <<limits, doNotWait, permissive, retention, layers, created, mutated,
                   cancelled, attempts, sleeps>>
    /\ UNCHANGED <<extVars, envVars, cfgVars, monVars, gateVars>>

\* localCacheIntegrityHMACSecretLength (line 109) and
\* localCacheIntegrityPurpose (line 112)
localCacheIntegrityHMACSecretLength == 16
localCacheIntegrityPurpose == "local-cache-integrity"

\* format.DeriveKeyFromMasterKey: a key that is a function of the master key,
\* the salt, the purpose and the length, and of nothing else; keys derived
\* from different arguments are different
DeriveKeyFromMasterKey(master, salt, purpose, length) ==
    [master |-> master, salt |-> salt, purpose |-> purpose, length |-> length]

\* variant: the HMAC secret is the master key for every format
CacheHMACSecret_AlwaysHmac(k) ==
    DeriveKeyFromMasterKey(k.HmacSecret, k.UniqueID, localCacheIntegrityPurpose,
                           localCacheIntegrityHMACSecretLength)

\* lines 454-459: cacheOpts.HMACSecret
CacheHMACSecret(k) ==
    IF k.SupportsPasswordChange
    THEN DeriveKeyFromMasterKey(k.HmacSecret, k.UniqueID, localCacheIntegrityPurpose,
                                localCacheIntegrityHMACSecretLength)
    ELSE DeriveKeyFromMasterKey(k.FormatEncryptionKey, k.UniqueID,
                                localCacheIntegrityPurpose,
                                localCacheIntegrityHMACSecretLength)

\* lines 454-459: the cache HMAC secret is derived
OpenSecret ==
    /\ opc = "secret"
    /\ opc' = StepAfter("secret")
    /\ created' = created \cup {"secret"}
    /\ secrets' = Append(secrets, CacheHMACSecret(fmKeys))
    /\ UNCHANGED <<limits, doNotWait, permissive, retention, layers, mutated, oErr,
                   cancelled, attempts, sleeps>>
    /\ UNCHANGED <<dirVars, chainVars, thrCfgVars, updVars, fmKeys, moreVars>>
    /\ UNCHANGED <<envVars, cfgVars, monVars, gateVars>>

\* variant: a parse error returns what was parsed so far
LimitsFromConnectionInfo_Partial(ci) ==
    IF ~ci.marshalOK THEN ZeroLimits ELSE ci.limits

\* throttlingLimitsFromConnectionInfo (lines 683-698): the zero limits when
\* ci.Config cannot be marshalled or the JSON cannot be parsed into Limits
throttlingLimitsFromConnectionInfo(ci) ==
    IF ~ci.marshalOK THEN ZeroLimits
    ELSE IF ~ci.parseOK THEN ZeroLimits
         ELSE ci.limits

\* variant: the rates the override leaves at zero are taken from the store
EffectiveLimits_Merged(ov, ci) ==
    LET d == throttlingLimitsFromConnectionInfo(ci)
    IN  IF ~ov.set THEN d
        ELSE [f \in DOMAIN d |-> IF ov.limits[f] = 0 THEN d[f] ELSE ov.limits[f]]

\* lines 461-464: the limits of the store's connection info, replaced by
\* cliOpts.Throttling when that is not nil
EffectiveLimits(ov, ci) ==
    IF ov.set THEN ov.limits ELSE throttlingLimitsFromConnectionInfo(ci)

\* throttling.NewThrottler refuses limits with a negative rate
ValidLimits(l) == \A f \in DOMAIN l : l[f] >= 0

\* lines 461-480: the limits, addThrottler (which can fail), OnUpdate
OpenThrottle ==
    /\ opc = "throttle"
    /\ LET l == EffectiveLimits(override, ciCfg)
       IN  IF ValidLimits(l)
           THEN /\ opc' = StepAfter("throttle")
                /\ layers' = WithThrottling(layers)
                /\ created' = created \cup {"throttler"}
                /\ limits' = l
                /\ UNCHANGED oErr
           ELSE /\ OpenFails(ErrThrottler)
                /\ UNCHANGED <<layers, created, limits>>
    /\ UNCHANGED <<doNotWait, permissive, retention, mutated, cancelled, attempts, sleeps>>
    /\ UNCHANGED <<extVars, envVars, cfgVars, monVars, gateVars>>

\* lines 482-489: fmgr.BlobCfgBlob() (which can fail), the retention wrapper
OpenBlobCfg ==
    /\ opc = "blobcfg"
    /\ \E ok \in BOOLEAN :
         IF ok
         THEN /\ opc' = StepAfter("blobcfg")
              /\ layers' = WithRetention(layers, retention)
              /\ UNCHANGED oErr
         ELSE /\ OpenFails(ErrBlobCfg)
              /\ UNCHANGED layers
    /\ UNCHANGED <<limits, doNotWait, permissive, retention, created, mutated,
                   cancelled, attempts, sleeps>>
    /\ UNCHANGED <<extVars, envVars, cfgVars, monVars, gateVars>>

\* retry loop, start of an iteration: the retry count, then ctx.Err()
OpenWait ==
    /\ opc = "wait"
    /\ IF ~RetryAllowed(attempts, waitMaxRetries)
       THEN OpenFails(ErrRetriesExhausted)
       ELSE IF CtxDone(cancelled)
            THEN OpenFails(ErrCancelled)
            ELSE opc' = "attempt" /\ UNCHANGED oErr
    /\ UNCHANGED <<limits, doNotWait, permissive, retention, layers, created, mutated,
                   cancelled, attempts, sleeps>>
    /\ UNCHANGED <<extVars, envVars, cfgVars, monVars, gateVars>>

\* retry loop: the attempt (lines 491-506) and the test of its error (507-509)
OpenAttempt ==
    /\ opc = "attempt"
    /\ attempts' = Min(attempts + 1, MaxAttempts)
    /\ \E fetchOK \in BOOLEAN :
         LET e == AttemptResult(fetchOK, permissive, fmLock, now, upgradeOwnerID)
         IN  IF e = ErrNone
             THEN opc' = StepAfter("wait") /\ UNCHANGED <<oErr, sleeps>>
             ELSE IF IsRetriable(doNotWait, e)
                  THEN /\ opc' = "sleep"
                       /\ sleeps' = Min(sleeps + 1, MaxAttempts)
                       /\ UNCHANGED oErr
                  ELSE OpenFails(e) /\ UNCHANGED sleeps
    /\ UNCHANGED <<limits, doNotWait, permissive, retention, layers, created, mutated, cancelled>>
    /\ UNCHANGED <<extVars, envVars, cfgVars, monVars, gateVars>>

\* retry loop: the backoff sleep ends
OpenSleepDone ==
    /\ opc = "sleep"
    /\ opc' = "wait"
    /\ UNCHANGED <<limits, doNotWait, permissive, retention, layers, created, mutated, oErr,
                   cancelled, attempts, sleeps>>
    /\ UNCHANGED <<extVars, envVars, cfgVars, monVars, gateVars>>

\* lines 514-517: the upgrade-lock monitor wraps st
OpenMonitor ==
    /\ opc = "monitor"
    /\ opc' = StepAfter("monitor")
    /\ layers' = WithMonitor(layers, permissive)
    /\ UNCHANGED <<limits, doNotWait, permissive, retention, created, mutated, oErr,
                   cancelled, attempts, sleeps>>
    /\ UNCHANGED <<extVars, envVars, cfgVars, monVars, gateVars>>

\* lines 519-537: the shared content manager, the write manager, the object
\* and manifest managers; they use st and any of them can fail
OpenManagers ==
    /\ opc = "managers"
    /\ \E w \in BOOLEAN : mutated' = (mutated \/ w)
    /\ \E ok \in BOOLEAN :
         IF ok
         THEN /\ opc' = StepAfter("managers")
              /\ created' = created \cup {"managers"}
              /\ UNCHANGED oErr
         ELSE /\ OpenFails(ErrManagers)
              /\ UNCHANGED created
    /\ UNCHANGED <<limits, doNotWait, permissive, retention, layers, cancelled, attempts, sleeps>>
    /\ UNCHANGED <<extVars, envVars, cfgVars, monVars, gateVars>>

\* lines 539-570: the closer, the repository value, return dr
OpenFinish ==
    /\ opc = "finish"
    /\ opc' = StepAfter("finish")
    /\ created' = created \cup {"closer"}
    /\ UNCHANGED <<limits, doNotWait, permissive, retention, layers, mutated, oErr,
                   cancelled, attempts, sleeps>>
    /\ UNCHANGED <<extVars, envVars, cfgVars, monVars, gateVars>>

\* the caller cancels ctx while the open runs
Cancel ==
    /\ opc \notin {"opened", "failed"}
    /\ ~cancelled
    /\ cancelled' = TRUE
    /\ UNCHANGED <<limits, doNotWait, permissive, retention, opc, layers, created, mutated,
                   oErr, attempts, sleeps>>
    /\ UNCHANGED <<extVars, envVars, cfgVars, monVars, gateVars>>

OpenEnvStep ==
    /\ opc \notin {"opened", "failed"}
    /\ ReloadTo(OpenIntents) \/ Tick
    /\ UNCHANGED <<extVars, cfgVars, monVars, gateVars, openVars>>

\* the steps of the goroutine that runs openWithConfig
OpenStep ==
    \/ OpenFormat
    \/ OpenGate
    \/ OpenSecret
    \/ OpenThrottle
    \/ OpenBlobCfg
    \/ OpenWait
    \/ OpenAttempt
    \/ OpenSleepDone
    \/ OpenMonitor
    \/ OpenManagers
    \/ OpenFinish

InitOpen ==
    /\ fmLock \in OpenIntents
    /\ fmReq \in MonReqs
    /\ fmLoaded = 1
    /\ now = 0
    /\ upgradeOwnerID \in HandleOwners
    /\ ignoreMissing \in BOOLEAN
    /\ MonInit
    /\ GateIdle
    /\ OpenInit
    /\ ExtIdle

NextOpen ==
    \/ OpenFormat
    \/ OpenGate
    \/ OpenSecret
    \/ OpenThrottle
    \/ OpenBlobCfg
    \/ OpenWait
    \/ OpenAttempt
    \/ OpenSleepDone
    \/ OpenMonitor
    \/ OpenManagers
    \/ OpenFinish
    \/ Cancel
    \/ OpenEnvStep

SpecOpen == InitOpen /\ [][NextOpen]_vars

\* the goroutine that runs openWithConfig keeps running
FairOpen == SpecOpen /\ WF_vars(OpenStep)

\* ------------------------------------------------------------ openDirect
\* openDirect returns the error e
DirectFails(e) ==
    /\ opc' = "dfailed"
    /\ oErr' = e

\* lines 397-404: lc.Storage must be set; blob.NewStorage (which can fail)
DirectStorage ==
    /\ opc = "dstorage"
    /\ \E isSet, ok \in BOOLEAN :
         IF ~isSet
         THEN DirectFails(ErrStorageNotSet) /\ UNCHANGED baseOpen
         ELSE IF ~ok
              THEN DirectFails(ErrCannotOpenStorage) /\ UNCHANGED baseOpen
              ELSE opc' = "dbufs" /\ baseOpen' = TRUE /\ UNCHANGED oErr
    /\ UNCHANGED <<limits, doNotWait, permissive, retention, layers, created, mutated,
                   cancelled, attempts, sleeps>>
    /\ UNCHANGED <<direct, traceStorage, readOnly, restVars>>
    /\ UNCHANGED <<envVars, cfgVars, monVars, gateVars>>

\* lines 406-409: StartProfileBuffers (which can fail)
DirectBufs ==
    /\ opc = "dbufs"
    /\ \E ok \in BOOLEAN :
         IF ok
         THEN opc' = "dwrap" /\ UNCHANGED oErr
         ELSE DirectFails(ErrProfileBuffers)
    /\ UNCHANGED <<limits, doNotWait, permissive, retention, layers, created, mutated,
                   cancelled, attempts, sleeps>>
    /\ UNCHANGED <<dirVars, restVars>>
    /\ UNCHANGED <<envVars, cfgVars, monVars, gateVars>>

\* lines 411-421: the logging wrapper, the read-only wrapper, then the call
\* of openWithConfig with the wrapped st
DirectWrap ==
    /\ opc = "dwrap"
    /\ layers' = WithReadOnly(WithTracing(layers, traceStorage), readOnly)
    /\ opc' = "format"
    /\ UNCHANGED <<limits, doNotWait, permissive, retention, created, mutated, oErr,
                   cancelled, attempts, sleeps>>
    /\ UNCHANGED <<dirVars, restVars>>
    /\ UNCHANGED <<envVars, cfgVars, monVars, gateVars>>

\* lines 422-425: openWithConfig returned an error: st.Close(ctx), return it
DirectClose ==
    /\ direct
    /\ opc = "failed"
    /\ baseOpen' = FALSE
    /\ opc' = "dfailed"
    /\ UNCHANGED <<limits, doNotWait, permissive, retention, layers, created, mutated, oErr,
                   cancelled, attempts, sleeps>>
    /\ UNCHANGED <<direct, traceStorage, readOnly, restVars>>
    /\ UNCHANGED <<envVars, cfgVars, monVars, gateVars>>

\* one call of openDirect on a repository without a lock intent
InitDirect ==
    /\ fmLock = NilIntent
    /\ fmReq \in MonReqs
    /\ fmLoaded = 1
    /\ now = 0
    /\ upgradeOwnerID = ""
    /\ ignoreMissing = FALSE
    /\ MonInit
    /\ GateIdle
    /\ doNotWait = FALSE
    /\ permissive \in BOOLEAN
    /\ retention \in BOOLEAN
    /\ opc = "dstorage"
    /\ layers = <<>>
    /\ created = {}
    /\ mutated = FALSE
    /\ oErr = ErrNone
    /\ cancelled = FALSE
    /\ attempts = 0
    /\ sleeps = 0
    /\ limits = ZeroLimits
    /\ direct = TRUE
    /\ traceStorage \in BOOLEAN
    /\ readOnly \in BOOLEAN
    /\ baseOpen = FALSE
    /\ ChainIdle
    /\ UpdIdle
    /\ SecIdle
    /\ MoreIdle
    /\ override \in {o \in [set : BOOLEAN, limits : Limits] :
                        o.set \/ o.limits = ZeroLimits}
    /\ ciCfg \in {ci \in [marshalOK : BOOLEAN, parseOK : BOOLEAN, limits : Limits] :
                     ci.marshalOK \/ ~ci.parseOK}

NextDirect ==
    \/ DirectStorage
    \/ DirectBufs
    \/ DirectWrap
    \/ OpenFormat
    \/ OpenGate
    \/ OpenSecret
    \/ OpenThrottle
    \/ OpenBlobCfg
    \/ OpenWait
    \/ OpenAttempt
    \/ OpenMonitor
    \/ OpenManagers
    \/ OpenFinish
    \/ DirectClose

SpecDirect == InitDirect /\ [][NextDirect]_vars

\* ------------------------------------------------------ repeated opens
\* a later process opens the same repository: openWithConfig starts again
\* with the same options on the same format
Reopen ==
    /\ opc \in {"opened", "failed"}
    /\ Len(secrets) < MaxOpens
    /\ opc' = "format"
    /\ layers' = <<>>
    /\ created' = {}
    /\ mutated' = FALSE
    /\ oErr' = ErrNone
    /\ attempts' = 0
    /\ sleeps' = 0
    /\ limits' = ZeroLimits
    /\ UNCHANGED <<doNotWait, permissive, retention, cancelled>>
    /\ UNCHANGED <<envVars, cfgVars, monVars, gateVars, extVars>>

InitSecret ==
    /\ fmLock = NilIntent
    /\ fmReq \in MonReqs
    /\ fmLoaded = 1
    /\ now = 0
    /\ upgradeOwnerID = ""
    /\ ignoreMissing = FALSE
    /\ MonInit
    /\ GateIdle
    /\ OpenInit
    /\ DirIdle
    /\ ChainIdle
    /\ ThrIdle
    /\ UpdIdle
    /\ fmKeys \in FormatKeys
    /\ secrets = <<>>
    /\ MoreIdle

NextSecret ==
    \/ OpenFormat
    \/ OpenGate
    \/ OpenSecret
    \/ OpenThrottle
    \/ OpenBlobCfg
    \/ OpenWait
    \/ OpenAttempt
    \/ OpenMonitor
    \/ OpenManagers
    \/ OpenFinish
    \/ Reopen

SpecSecret == InitSecret /\ [][NextSecret]_vars

\* ---------------------------------------------------- wrapLockingStorage
\* strings.HasPrefix (line 607)
HasPrefix(id, prefix) ==
    Len(id) >= Len(prefix) /\ SubSeq(id, 1, Len(prefix)) = prefix

\* the prefixes collected at lines 597-603: content.PackBlobIDPrefixes,
\* indexblob.V0IndexBlobPrefix, epoch.EpochManagerIndexUberPrefix,
\* format.KopiaRepositoryBlobID, format.KopiaBlobCfgBlobID
PackBlobIDPrefixes == <<(<<"p">>), (<<"q">>)>>
V0IndexBlobPrefix == <<"n">>
EpochManagerIndexUberPrefix == <<"x">>
KopiaRepositoryBlobID == <<"kopia.", "repository">>
KopiaBlobCfgBlobID == <<"kopia.", "blobcfg">>

LockedPrefixes ==
    PackBlobIDPrefixes \o <<V0IndexBlobPrefix, EpochManagerIndexUberPrefix,
                            KopiaRepositoryBlobID, KopiaBlobCfgBlobID>>

\* blob.PutOptions: the retention fields and a field no wrapper touches
PutOptions == [RetentionMode : {"", "GOVERNANCE", "COMPLIANCE"},
               RetentionPeriod : {0, 7, 30},
               DoNotRecreate : BOOLEAN]

\* variant: only a pack-blob prefix is looked for
PutCallback_PackOnly(id, opts, r) ==
    IF \E i \in 1..Len(PackBlobIDPrefixes) : HasPrefix(id, PackBlobIDPrefixes[i])
    THEN [opts EXCEPT !.RetentionMode = r.RetentionMode,
                      !.RetentionPeriod = r.RetentionPeriod]
    ELSE opts

\* variant: the caller's options are replaced, not amended
PutCallback_ReplacesOptions(id, opts, r) ==
    IF \E i \in 1..Len(LockedPrefixes) : HasPrefix(id, LockedPrefixes[i])
    THEN [RetentionMode |-> r.RetentionMode, RetentionPeriod |-> r.RetentionPeriod,
          DoNotRecreate |-> FALSE]
    ELSE opts

\* variant: the retention fields are set for every id
PutCallback_Always(id, opts, r) ==
    [opts EXCEPT !.RetentionMode = r.RetentionMode,
                 !.RetentionPeriod = r.RetentionPeriod]

\* lines 605-614: the put callback: the options the delegate is called with
PutCallback(id, opts, r) ==
    IF \E i \in 1..Len(LockedPrefixes) : HasPrefix(id, LockedPrefixes[i])
    THEN [opts EXCEPT !.RetentionMode = r.RetentionMode,
                      !.RetentionPeriod = r.RetentionPeriod]
    ELSE opts

\* ------------------------------------- storage calls through the wrappers
\* the retention mode and period of the repository's blob configuration
BlobCfgRetention == [RetentionMode |-> "COMPLIANCE", RetentionPeriod |-> 30]

\* the options a caller hands to Put
CallerOpts == {NoOpts,
               [RetentionMode |-> "GOVERNANCE", RetentionPeriod |-> 7, DoNotRecreate |-> TRUE]}

StorageOps == {"Get", "List", "Put", "Delete"}
Mutating == {"Put", "Delete"}

\* the base store runs op on its content st: the content afterwards and the
\* result; ok says whether the store itself works
BaseApply(st, op, id, opts, ok) ==
    IF ~ok THEN [store |-> st, res |-> Result(ErrBaseIO, {})]
    ELSE CASE op = "Get" ->
                [store |-> st,
                 res |-> IF st[id] = Absent THEN Result(ErrBlobNotFound, {})
                         ELSE Result(ErrNone, {id})]
           [] op = "List" ->
                [store |-> st,
                 res |-> Result(ErrNone, {i \in DOMAIN st : st[i] # Absent})]
           [] op = "Put" ->
                [store |-> [st EXCEPT ![id] = opts], res |-> Result(ErrNone, {})]
           [] OTHER ->
                [store |-> [st EXCEPT ![id] = Absent],
                 res |-> IF st[id] = Absent THEN Result(ErrBlobNotFound, {})
                         ELSE Result(ErrNone, {})]

\* variant: the read-only wrapper lets Delete through
ReadOnlyDenies_PutOnly(op) == op = "Put"

\* readonly wrapper: the mutating calls are rejected
ReadOnlyDenies(op) == op \in Mutating

\* what the wrapper l does with a call before it delegates: the error it
\* rejects the call with (ErrNone: it delegates) and the options it hands on;
\* deny says whether the monitor's callback refuses, or the throttler's wait
\* is cancelled
LayerBefore(l, op, id, opts, deny) ==
    CASE l = "monitor" ->
            [err |-> IF deny THEN ErrRepositoryUnavailableDueToUpgradeInProgress ELSE ErrNone,
             opts |-> opts]
      [] l = "retention" ->
            [err |-> ErrNone,
             opts |-> IF op = "Put" THEN PutCallback(id, opts, BlobCfgRetention) ELSE opts]
      [] l = "throttling" ->
            [err |-> IF deny THEN ErrCancelled ELSE ErrNone, opts |-> opts]
      [] l = "readonly" ->
            [err |-> IF ReadOnlyDenies(op) THEN ErrReadOnly ELSE ErrNone, opts |-> opts]
      [] OTHER -> [err |-> ErrNone, opts |-> opts]

\* variant: the metrics wrapper reports a failed call as a success
LayerAfter_MetricsSwallows(l, r) ==
    IF l = "metrics" /\ r.err # ErrNone THEN Result(ErrNone, {}) ELSE r

\* what the wrapper l returns when its delegate returned r
LayerAfter(l, r) == r

\* the result r handed back through the wrappers from position p outwards
RECURSIVE ReturnThrough(_, _, _)
ReturnThrough(ls, p, r) ==
    IF p > Len(ls) THEN r ELSE ReturnThrough(ls, p + 1, LayerAfter(ls[p], r))

\* a caller issues a storage call on the handle's Storage
CallStart ==
    /\ call.phase = "done"
    /\ \E op \in StorageOps, id \in ChainIDs, o \in CallerOpts :
         /\ op # "Put" => o = NoOpts
         /\ op = "List" => id = <<"p", "s">>
         /\ call' = [op |-> op, id |-> id, opts |-> o, orig |-> o, pos |-> Len(layers),
                     phase |-> "down", res |-> Result(ErrNone, {}), by |-> "",
                     before |-> store]
    /\ UNCHANGED store
    /\ UNCHANGED <<envVars, cfgVars, monVars, gateVars, openVars, dirVars, thrCfgVars, updVars, secVars, moreVars>>

\* the call enters the next wrapper, which rejects it or delegates
CallLayer ==
    /\ call.phase = "down"
    /\ call.pos >= 1
    /\ \E deny \in BOOLEAN :
         LET l == layers[call.pos]
             b == LayerBefore(l, call.op, call.id, call.opts, deny)
         IN  IF b.err # ErrNone
             THEN call' = [call EXCEPT !.phase = "up", !.res = Result(b.err, {}), !.by = l]
             ELSE call' = [call EXCEPT !.pos = call.pos - 1, !.opts = b.opts]
    /\ UNCHANGED store
    /\ UNCHANGED <<envVars, cfgVars, monVars, gateVars, openVars, dirVars, thrCfgVars, updVars, secVars, moreVars>>

\* the call reaches the base store
CallBase ==
    /\ call.phase = "down"
    /\ call.pos = 0
    /\ \E ok \in BOOLEAN :
         LET b == BaseApply(store, call.op, call.id, call.opts, ok)
         IN  /\ store' = b.store
             /\ call' = [call EXCEPT !.phase = "up", !.res = b.res, !.by = "base"]
    /\ UNCHANGED <<envVars, cfgVars, monVars, gateVars, openVars, dirVars, thrCfgVars, updVars, secVars, moreVars>>

\* the result goes back to the caller through the wrappers that delegated
CallReturn ==
    /\ call.phase = "up"
    /\ call' = [call EXCEPT !.phase = "done",
                            !.res = ReturnThrough(layers, call.pos + 1, call.res)]
    /\ UNCHANGED store
    /\ UNCHANGED <<envVars, cfgVars, monVars, gateVars, openVars, dirVars, thrCfgVars, updVars, secVars, moreVars>>

\* a repository opened by openDirect over a base store with some content
InitChain ==
    /\ fmLock = NilIntent
    /\ fmReq = <<>>
    /\ fmLoaded = 1
    /\ now = 0
    /\ upgradeOwnerID = ""
    /\ ignoreMissing = FALSE
    /\ MonInit
    /\ GateIdle
    /\ doNotWait = FALSE
    /\ permissive \in BOOLEAN
    /\ retention \in BOOLEAN
    /\ traceStorage \in BOOLEAN
    /\ readOnly \in BOOLEAN
    /\ opc = "opened"
    /\ layers = WithMonitor(WithRetention(WithThrottling(WithMetrics(
                    WithReadOnly(WithTracing(<<>>, traceStorage), readOnly))),
                    retention), permissive)
    /\ created = {"registry", "fmgr", "secret", "throttler", "managers", "closer"}
    /\ mutated = FALSE
    /\ oErr = ErrNone
    /\ cancelled = FALSE
    /\ attempts = 1
    /\ sleeps = 0
    /\ limits = ZeroLimits
    /\ direct = TRUE
    /\ baseOpen = TRUE
    /\ store \in {[id \in ChainIDs |-> Absent],
                   [id \in ChainIDs |-> IF id = <<"s", "p">> THEN NoOpts ELSE Absent]}
    /\ call = NoCall
    /\ ThrIdle
    /\ UpdIdle
    /\ SecIdle
    /\ MoreIdle

NextChain ==
    \/ CallStart
    \/ CallLayer
    \/ CallBase
    \/ CallReturn

SpecChain == InitChain /\ [][NextChain]_vars

\* ------------------------------------------------------------------ Open
\* variant: Open does not look at PermissiveCacheLoading
RejectsPermissive_Never(perm, ro) == FALSE

\* Open, line 173: lc.PermissiveCacheLoading && !lc.ReadOnly
RejectsPermissive(perm, ro) == perm /\ ~ro

\* Open, lines 168-181: the config file is loaded (which can fail), a
\* permissive connection that is not read-only is rejected, a connection to
\* an API server goes to openAPIServer, every other one to openDirect
OpenConfig ==
    /\ opc = "open"
    /\ \E loadOK, apiServer \in BOOLEAN :
         IF ~loadOK
         THEN DirectFails(ErrLoadConfig)
         ELSE IF RejectsPermissive(permissive, readOnly)
              THEN DirectFails(ErrCannotWriteToRepoConnectionWithPermissiveCacheLoading)
              ELSE IF apiServer
                   THEN opc' = "apiserver" /\ UNCHANGED oErr
                   ELSE opc' = "dstorage" /\ UNCHANGED oErr
    /\ UNCHANGED <<limits, doNotWait, permissive, retention, layers, created, mutated,
                   cancelled, attempts, sleeps>>
    /\ UNCHANGED <<dirVars, restVars>>
    /\ UNCHANGED <<envVars, cfgVars, monVars, gateVars>>

\* a storage call on the handle that Open returned
HandleCall ==
    /\ opc = "opened"
    /\ CallStart \/ CallLayer \/ CallBase \/ CallReturn

\* one call of Open, by a caller that does not wait for an upgrade, on a
\* repository whose lock intent is nil or locked by alice or by bob
InitFromOpen ==
    /\ fmLock \in {NilIntent} \cup
                  {[nil |-> FALSE, OwnerID |-> o, LockTime |-> 0] : o \in {"alice", "bob"}}
    /\ fmReq = <<>>
    /\ fmLoaded = 1
    /\ now = 0
    /\ upgradeOwnerID \in HandleOwners
    /\ ignoreMissing = FALSE
    /\ MonInit
    /\ GateIdle
    /\ doNotWait = TRUE
    /\ permissive \in BOOLEAN
    /\ retention \in BOOLEAN
    /\ opc = "open"
    /\ layers = <<>>
    /\ created = {}
    /\ mutated = FALSE
    /\ oErr = ErrNone
    /\ cancelled = FALSE
    /\ attempts = 0
    /\ sleeps = 0
    /\ limits = ZeroLimits
    /\ direct = TRUE
    /\ traceStorage = FALSE
    /\ readOnly \in BOOLEAN
    /\ baseOpen = FALSE
    /\ ChainIdle
    /\ ThrIdle
    /\ UpdIdle
    /\ SecIdle
    /\ MoreIdle

NextFromOpen ==
    \/ OpenConfig
    \/ DirectStorage
    \/ DirectBufs
    \/ DirectWrap
    \/ OpenFormat
    \/ OpenGate
    \/ OpenSecret
    \/ OpenThrottle
    \/ OpenBlobCfg
    \/ OpenWait
    \/ OpenAttempt
    \/ OpenMonitor
    \/ OpenManagers
    \/ OpenFinish
    \/ DirectClose
    \/ HandleCall

SpecFromOpen == InitFromOpen /\ [][NextFromOpen]_vars

\* ------------------------------------------------------- the throttler
\* throttlingWindow (line 103), in seconds, and throttleBucketInitialFill
\* (line 106), in percent
throttlingWindow == 60
throttleBucketInitialFill == 10

\* the most tokens the bucket of a rate holds, and what it holds at the start
Capacity(rate) == rate * throttlingWindow
InitialTokens(rate) == (Capacity(rate) * throttleBucketInitialFill) \div 100

\* variant: the config file is written although it could not be loaded
OnUpdate_WritesAnyway(file, l, loadOK, writeOK) ==
    IF ~writeOK THEN [file |-> file, err |-> ErrWriteConfig, wrote |-> TRUE]
    ELSE [file |-> [set |-> TRUE, limits |-> l],
          err |-> IF loadOK THEN ErrNone ELSE ErrLoadConfig, wrote |-> TRUE]

\* lines 471-480: the callback given to throttler.OnUpdate: load the config
\* file (return its error), set Throttling, write the file (return its error)
OnUpdate(file, l, loadOK, writeOK) ==
    IF ~loadOK THEN [file |-> file, err |-> ErrLoadConfig, wrote |-> FALSE]
    ELSE IF ~writeOK THEN [file |-> file, err |-> ErrWriteConfig, wrote |-> TRUE]
         ELSE [file |-> [set |-> TRUE, limits |-> l], err |-> ErrNone, wrote |-> TRUE]

\* variant: a bucket keeps its tokens when its capacity shrinks
TokensAfterUpdate_Kept(t, l) == t

\* UpdateLimits: the tokens of the buckets under the new limits: what they
\* held, cut down to the new capacity
TokensAfterUpdate(t, l) == [f \in DOMAIN t |-> Min(t[f], Capacity(l[f]))]

\* the token counts an Acquire asks for
AcquireSizes == {Capacity(1)}

\* SettableThrottler.UpdateLimits(l): invalid limits are refused; otherwise
\* the buckets take the new limits and the OnUpdate callback runs; its error
\* is the result
UpdateLimits ==
    /\ opc = "opened"
    /\ \E l \in Limits :
         IF ~ValidLimits(l)
         THEN /\ upd' = [upd EXCEPT !.cb = ErrNone, !.err = ErrInvalidLimits,
                                    !.wrote = FALSE]
              /\ UNCHANGED <<limits, tokens, cfgFile>>
         ELSE \E loadOK \in BOOLEAN :
              \E writeOK \in IF loadOK THEN BOOLEAN ELSE {TRUE} :
              LET cb == OnUpdate(cfgFile, l, loadOK, writeOK)
              IN  /\ limits' = l
                  /\ tokens' = TokensAfterUpdate(tokens, l)
                  /\ cfgFile' = cb.file
                  /\ upd' = [arg |-> l, cb |-> cb.err, err |-> cb.err,
                              wrote |-> cb.wrote]
    /\ UNCHANGED <<doNotWait, permissive, retention, opc, layers, created, mutated,
                   oErr, cancelled, attempts, sleeps>>
    /\ UNCHANGED <<envVars, cfgVars, monVars, gateVars, dirVars, chainVars, thrCfgVars,
                   secVars, moreVars>>

\* Acquire(n) on the bucket of the rate f: waits until the bucket holds n
\* tokens, then takes them; a rate of zero is no limit
Acquire ==
    /\ opc = "opened"
    /\ \E f \in DOMAIN tokens, n \in AcquireSizes :
         /\ limits[f] > 0
         /\ tokens[f] >= n
         /\ tokens' = [tokens EXCEPT ![f] = tokens[f] - n]
    /\ UNCHANGED <<cfgFile, upd>>
    /\ UNCHANGED <<envVars, cfgVars, monVars, gateVars, openVars, dirVars, chainVars,
                   thrCfgVars, secVars, moreVars>>

\* a bucket fills up with time: when a whole window has gone by without an
\* Acquire, it holds its capacity
Replenish ==
    /\ opc = "opened"
    /\ \E f \in DOMAIN tokens :
         /\ tokens[f] < Capacity(limits[f])
         /\ tokens' = [tokens EXCEPT ![f] = Capacity(limits[f])]
    /\ UNCHANGED <<cfgFile, upd>>
    /\ UNCHANGED <<envVars, cfgVars, monVars, gateVars, openVars, dirVars, chainVars,
                   thrCfgVars, secVars, moreVars>>

\* the throttler of a repository opened with valid limits (addThrottler,
\* lines 617-624: the window and the initial fill)
InitThrottler ==
    /\ fmLock = NilIntent
    /\ fmReq = <<>>
    /\ fmLoaded = 1
    /\ now = 0
    /\ upgradeOwnerID = ""
    /\ ignoreMissing = FALSE
    /\ MonInit
    /\ GateIdle
    /\ doNotWait = FALSE
    /\ permissive = FALSE
    /\ retention = FALSE
    /\ opc = "opened"
    /\ layers = WithMonitor(WithRetention(WithThrottling(WithMetrics(<<>>)),
                                          retention), permissive)
    /\ created = {"registry", "fmgr", "secret", "throttler", "managers", "closer"}
    /\ mutated = FALSE
    /\ oErr = ErrNone
    /\ cancelled = FALSE
    /\ attempts = 1
    /\ sleeps = 0
    /\ DirIdle
    /\ ChainIdle
    /\ override \in {o \in [set : BOOLEAN, limits : Limits] :
                        /\ o.set \/ o.limits = ZeroLimits
                        /\ ValidLimits(o.limits)}
    /\ ciCfg = [marshalOK |-> TRUE, parseOK |-> TRUE, limits |-> ZeroLimits]
    /\ limits = EffectiveLimits(override, ciCfg)
    /\ tokens = [f \in DOMAIN limits |-> InitialTokens(limits[f])]
    /\ cfgFile = override
    /\ upd = NoUpdate
    /\ SecIdle
    /\ MoreIdle

NextThrottler ==
    \/ UpdateLimits
    \/ Acquire
    \/ Replenish

SpecThrottler == InitThrottler /\ [][NextThrottler]_vars

\* ------------------------------------------- wrapLockingStorage on its own
\* the tokens blob ids are made of, and every blob id of at most MaxIdLen tokens
IdTokens == {"p", "q", "n", "x", "s", "kopia.", "repository", "blobcfg"}
BlobIDs == SeqsUpTo(IdTokens, MaxIdLen)

\* one call, with any blob id and any options, enters the wrapper that
\* wrapLockingStorage(st, blobcfg) returns for an empty store st
InitRetention ==
    /\ fmLock = NilIntent
    /\ fmReq = <<>>
    /\ fmLoaded = 1
    /\ now = 0
    /\ upgradeOwnerID = ""
    /\ ignoreMissing = FALSE
    /\ MonInit
    /\ GateIdle
    /\ doNotWait = FALSE
    /\ permissive = FALSE
    /\ retention = TRUE
    /\ opc = "blobcfg"
    /\ layers = WithRetention(<<>>, retention)
    /\ created = {}
    /\ mutated = FALSE
    /\ oErr = ErrNone
    /\ cancelled = FALSE
    /\ attempts = 0
    /\ sleeps = 0
    /\ limits = ZeroLimits
    /\ DirIdle
    /\ store = [id \in BlobIDs |-> Absent]
    /\ \E op \in StorageOps, id \in BlobIDs, o \in PutOptions :
         /\ op # "Put" => o = NoOpts
         /\ op = "List" => id = <<>>
         /\ call = [op |-> op, id |-> id, opts |-> o, orig |-> o, pos |-> 1,
                    phase |-> "down", res |-> Result(ErrNone, {}), by |-> "",
                    before |-> store]
    /\ ThrIdle
    /\ UpdIdle
    /\ SecIdle
    /\ MoreIdle

NextRetention ==
    \/ CallLayer
    \/ CallBase
    \/ CallReturn

SpecRetention == InitRetention /\ [][NextRetention]_vars

\* ======================================================================
\* Claims about the upgrade-lock monitor (specification Spec)
\* ======================================================================

\* ------------------------------------------------------ refCountedCloser
\* every variable of the open of a repository and of its storage is at rest
ProgramIdle ==
    /\ fmLock = NilIntent
    /\ fmReq = <<>>
    /\ fmLoaded = 1
    /\ now = 0
    /\ upgradeOwnerID = ""
    /\ ignoreMissing = FALSE
    /\ MonInit
    /\ GateIdle
    /\ OpenIdle
    /\ DirIdle
    /\ ChainIdle
    /\ ThrIdle
    /\ UpdIdle
    /\ SecIdle

progVars == <<envVars, cfgVars, monVars, gateVars, openVars, dirVars, chainVars,
              thrCfgVars, updVars, secVars>>

\* lines 539-542: the release functions given to newRefCountedCloser, in the
\* order of registration; lines 564-567: the early close function, which
\* returns nil
CloseFuncs == <<"scm.CloseShared", "mr.Close">>
EarlyCloseFuncs == <<"dr.CloseDebug">>

Reverse(q) == [i \in 1..Len(q) |-> q[Len(q) + 1 - i]]

\* the order in which a closer runs its functions: the early close functions
\* in the order of registration, then the release functions in reverse
ReleaseOrder == EarlyCloseFuncs \o Reverse(CloseFuncs)

\* variant: the release stops at the first function that fails
ToRun_StopsAtError(ran, errs) ==
    IF Len(ran) < Len(ReleaseOrder) /\ errs = <<>>
    THEN <<ReleaseOrder[Len(ran) + 1]>> ELSE <<>>

\* the function a release runs next once it has run ran and collected errs
ToRun(ran, errs) ==
    IF Len(ran) < Len(ReleaseOrder) THEN <<ReleaseOrder[Len(ran) + 1]>> ELSE <<>>

\* variant: the first Close releases
ReleasesAt_FirstClose(remaining) == TRUE

\* Close releases when it took the last reference
ReleasesAt(remaining) == remaining = 0

\* variant: a later Close on a closed handle reports success
RepeatResult_Nil(first) == <<>>

\* a later Close on a closed handle does nothing and returns what the first
\* Close on it returned
RepeatResult(first) == first

\* a handle is derived from an open one: one more reference
AddRef ==
    /\ \E parent, h \in Handles :
         /\ closer.hstate[parent] = "open"
         /\ closer.hstate[h] = "none"
         /\ closer' = [closer EXCEPT !.refs = @ + 1, !.hstate[h] = "open"]
    /\ UNCHANGED <<progVars, gatherVars, pemdir, lateVars>>

\* Close() on an open handle: the reference is given up; the call that took
\* the last one goes on to release, any other returns nil
CloseCall ==
    /\ \E h \in Handles :
         /\ closer.hstate[h] = "open"
         /\ IF ReleasesAt(closer.refs - 1)
            THEN closer' = [closer EXCEPT !.refs = @ - 1, !.hstate[h] = "closing",
                                          !.releaser = h]
            ELSE closer' = [closer EXCEPT !.refs = @ - 1, !.hstate[h] = "closed",
                                          !.calls[h] = 1, !.first[h] = <<>>,
                                          !.last[h] = <<>>]
    /\ UNCHANGED <<progVars, gatherVars, pemdir, lateVars>>

\* the releaser Close runs its next function and keeps the error it returns
Release ==
    /\ closer.releaser # 0
    /\ closer.hstate[closer.releaser] = "closing"
    /\ ToRun(closer.ran, closer.errs) # <<>>
    /\ LET fn == ToRun(closer.ran, closer.errs)[1]
       IN  closer' = [closer EXCEPT
                        !.ran = Append(@, fn),
                        !.errs = IF fn \in closer.failing THEN Append(@, fn) ELSE @]
    /\ UNCHANGED <<progVars, gatherVars, pemdir, lateVars>>

\* the releaser Close returns the errors it collected
CloseReturn ==
    /\ closer.releaser # 0
    /\ closer.hstate[closer.releaser] = "closing"
    /\ ToRun(closer.ran, closer.errs) = <<>>
    /\ LET h == closer.releaser
       IN  closer' = [closer EXCEPT !.hstate[h] = "closed",
                                    !.calls[h] = 1, !.first[h] = closer.errs,
                                    !.last[h] = closer.errs]
    /\ UNCHANGED <<progVars, gatherVars, pemdir, lateVars>>

\* Close() on a handle that is closed already
CloseAgain ==
    /\ \E h \in Handles :
         /\ closer.hstate[h] = "closed"
         /\ closer.calls[h] < MaxCloses
         /\ closer' = [closer EXCEPT !.calls[h] = @ + 1,
                                      !.last[h] = RepeatResult(closer.first[h])]
    /\ UNCHANGED <<progVars, gatherVars, pemdir, lateVars>>

\* a repository was opened: one handle, one reference, nothing released
InitCloser ==
    /\ ProgramIdle
    /\ GatherIdle
    /\ PemIdle
    /\ LateIdle
    /\ \E f \in SUBSET {CloseFuncs[i] : i \in 1..Len(CloseFuncs)} :
         closer = [NoCloser EXCEPT !.failing = f, !.refs = 1, !.hstate[1] = "open"]

NextCloser ==
    \/ AddRef
    \/ CloseCall
    \/ Release
    \/ CloseReturn
    \/ CloseAgain

SpecCloser == InitCloser /\ [][NextCloser]_vars

\* ------------------------------------------------------------ gather.Bytes
\* s[a:b] of Go
GoSlice(q, a, b) == SubSeq(q, a + 1, b)

\* w.Write(data): the Write call numbered failAt writes nothing and fails
Write(w, data) ==
    IF w.failAt = w.writes + 1
    THEN [w |-> [w EXCEPT !.writes = @ + 1], n |-> 0, err |-> ErrWriter]
    ELSE [w |-> [w EXCEPT !.writes = @ + 1, !.written = @ \o data],
          n |-> Len(data), err |-> ErrNone]

\* FromSlice (lines 210-217)
FromSlice(b) == [Slices |-> <<b>>, sliceBuf |-> b]

\* invalidate (lines 25-28)
invalidate(b) == [Slices |-> <<>>, sliceBuf |-> invalidSliceBuf]

\* assertValid (lines 30-34): TRUE when it returns, FALSE when it panics
assertValid(b) ==
    ~(Len(b.sliceBuf) = Len(invalidSliceBuf) /\ b.sliceBuf = invalidSliceBuf)

\* what a call that panicked leaves behind
Panicked(w) == [panic |-> TRUE, n |-> 0, err |-> ErrNone, w |-> w]

\* lines 44-54: the index of the slice that holds offset (slices are counted
\* from 1; -1: none) and the offset within it
RECURSIVE FindSlice(_, _, _)
FindSlice(slices, i, offset) ==
    IF i > Len(slices) THEN [ndx |-> -1, offset |-> offset]
    ELSE IF offset < Len(slices[i]) THEN [ndx |-> i, offset |-> offset]
         ELSE FindSlice(slices, i + 1, offset - Len(slices[i]))

\* variant: the loop ends at a slice that has nothing to give
AppendRest_StopsAtEmpty(slices, ndx, size, w) ==
    IF ~(size > 0 /\ ndx <= Len(slices) /\ Len(slices[ndx]) > 0)
    THEN [panic |-> FALSE, n |-> 0, err |-> ErrNone, w |-> w]
    ELSE LET sl == slices[ndx]
             l == IF size > Len(sl) THEN Len(sl) ELSE size
             r == Write(w, GoSlice(sl, 0, l))
             t == IF size - l > 0 /\ ndx + 1 <= Len(slices)
                  THEN Write(r.w, GoSlice(slices[ndx + 1], 0, Min(size - l, Len(slices[ndx + 1]))))
                  ELSE [w |-> r.w, n |-> 0, err |-> ErrNone]
         IN  [panic |-> FALSE, n |-> 0,
              err |-> IF r.err # ErrNone THEN r.err ELSE t.err,
              w |-> IF r.err # ErrNone THEN r.w ELSE t.w]

\* lines 78-95: the slices after the first one
RECURSIVE AppendRest(_, _, _, _)
AppendRest(slices, ndx, size, w) ==
    IF ~(size > 0 /\ ndx <= Len(slices))
    THEN [panic |-> FALSE, n |-> 0, err |-> ErrNone, w |-> w]
    ELSE LET sl == slices[ndx]
             l == IF size > Len(sl) THEN Len(sl) ELSE size
             r == Write(w, GoSlice(sl, 0, l))
         IN  IF r.err # ErrNone
             THEN [panic |-> FALSE, n |-> 0, err |-> r.err, w |-> r.w]
             ELSE AppendRest(slices, ndx + 1, size - l, r.w)

\* AppendSectionTo (lines 36-96)
AppendSectionTo(b, w, offset, size) ==
    IF ~assertValid(b) THEN Panicked(w)
    ELSE IF offset < 0
    THEN [panic |-> FALSE, n |-> 0, err |-> ErrInvalidOffset, w |-> w]
    ELSE LET f == FindSlice(b.Slices, 1, offset)
         IN  IF f.ndx = -1
             THEN [panic |-> FALSE, n |-> 0, err |-> ErrNone, w |-> w]
             ELSE LET sl == b.Slices[f.ndx]
                      firstChunkSize == IF f.offset + size <= Len(sl)
                                        THEN size
                                        ELSE Len(sl) - f.offset
                      r == Write(w, GoSlice(sl, f.offset, f.offset + firstChunkSize))
                  IN  IF r.err # ErrNone
                      THEN [panic |-> FALSE, n |-> 0, err |-> r.err, w |-> r.w]
                      ELSE AppendRest(b.Slices, f.ndx + 1, size - firstChunkSize, r.w)

RECURSIVE SumLen(_, _)
SumLen(slices, i) ==
    IF i > Len(slices) THEN 0 ELSE Len(slices[i]) + SumLen(slices, i + 1)

\* Length (lines 98-109)
Length(b) ==
    IF ~assertValid(b) THEN Panicked(NewWriter(0))
    ELSE [panic |-> FALSE, n |-> SumLen(b.Slices, 1), err |-> ErrNone, w |-> NewWriter(0)]

RECURSIVE AppendAll(_, _, _)
AppendAll(slices, i, output) ==
    IF i > Len(slices) THEN output ELSE AppendAll(slices, i + 1, output \o slices[i])

\* AppendToSlice (lines 171-180); the slice returned is in w.written
AppendToSlice(b, output) ==
    IF ~assertValid(b) THEN Panicked(NewWriter(0))
    ELSE [panic |-> FALSE, n |-> 0, err |-> ErrNone,
          w |-> [NewWriter(0) EXCEPT !.written = AppendAll(b.Slices, 1, output)]]

\* ToByteSlice (lines 182-187)
ToByteSlice(b) ==
    IF ~assertValid(b) THEN Panicked(NewWriter(0)) ELSE AppendToSlice(b, <<>>)

RECURSIVE WriteLoop(_, _, _, _)

\* variant: the loop goes on after a Write that failed and drops its error
WriteLoop_DropsError(slices, i, w, totalN) ==
    IF i > Len(slices) THEN [panic |-> FALSE, n |-> totalN, err |-> ErrNone, w |-> w]
    ELSE LET r == Write(w, slices[i])
         IN  WriteLoop(slices, i + 1, r.w, totalN + r.n)

\* lines 195-206
WriteLoop(slices, i, w, totalN) ==
    IF i > Len(slices) THEN [panic |-> FALSE, n |-> totalN, err |-> ErrNone, w |-> w]
    ELSE LET r == Write(w, slices[i])
         IN  IF r.err # ErrNone
             THEN [panic |-> FALSE, n |-> totalN + r.n, err |-> r.err, w |-> r.w]
             ELSE WriteLoop(slices, i + 1, r.w, totalN + r.n)

\* WriteTo (lines 189-207)
WriteTo(b, w) ==
    IF ~assertValid(b) THEN Panicked(w) ELSE WriteLoop(b.Slices, 1, w, 0)

\* ReadAt (lines 111-116): the section is appended to a bytes.Buffer over
\* p[:0], which puts it at the start of p; n is len(p)
ReadAt(b, p, off) ==
    IF ~assertValid(b) THEN [panic |-> TRUE, n |-> 0, err |-> ErrNone, p |-> p]
    ELSE LET r == AppendSectionTo(b, NewWriter(0), off, Len(p))
         IN  [panic |-> FALSE, n |-> Len(p), err |-> r.err,
              p |-> r.w.written \o SubSeq(p, Len(r.w.written) + 1, Len(p))]

\* variant: Read hands the whole buffer to ReadAt
ReadLen_Whole(offset, l, length) == l

\* lines 128-131: the number of bytes Read asks ReadAt for
ReadLen(offset, l, length) == IF offset + l > length THEN length - offset ELSE l

\* bytesReadSeekCloser.Read (lines 127-141) at the offset given, into buf
Read(b, offset, buf) ==
    LET l == ReadLen(offset, Len(buf), SumLen(b.Slices, 1))
    IN  IF offset + Len(buf) > SumLen(b.Slices, 1) /\ l = 0
        THEN [n |-> 0, err |-> EOF, p |-> buf, offset |-> offset]
        ELSE LET r == ReadAt(b, GoSlice(buf, 0, l), offset)
             IN  [n |-> r.n, err |-> r.err, p |-> r.p \o GoSlice(buf, l, Len(buf)),
                  offset |-> offset + r.n]

\* io.SeekStart, io.SeekCurrent, io.SeekEnd, and a value that is none of them
Whences == {0, 1, 2, 3}

\* variant: a seek is checked against the start only
SeekInvalid_StartOnly(newOffset, length) == newOffset < 0

\* line 155
SeekInvalid(newOffset, length) == newOffset < 0 \/ newOffset > length

\* bytesReadSeekCloser.Seek (lines 143-162)
Seek(b, cur, offset, whence) ==
    LET newOffset == CASE whence = 0 -> offset
                       [] whence = 1 -> cur + offset
                       [] whence = 2 -> SumLen(b.Slices, 1) + offset
                       [] OTHER -> cur
    IN  IF SeekInvalid(newOffset, SumLen(b.Slices, 1))
        THEN [n |-> 0, err |-> ErrInvalidSeek, offset |-> cur]
        ELSE [n |-> newOffset, err |-> ErrNone, offset |-> newOffset]

\* io.ReadAll: Read into a buffer of bufLen bytes until Read returns an error;
\* io.EOF ends it without an error
RECURSIVE ReadAllLoop(_, _, _, _, _)
ReadAllLoop(b, offset, bufLen, acc, fuel) ==
    LET r == Read(b, offset, [i \in 1..bufLen |-> 0])
    IN  IF r.err = EOF THEN [data |-> acc, err |-> ErrNone]
        ELSE IF r.err # ErrNone \/ fuel = 0
             THEN [data |-> acc \o GoSlice(r.p, 0, r.n), err |-> "error"]
             ELSE ReadAllLoop(b, r.offset, bufLen, acc \o GoSlice(r.p, 0, r.n), fuel - 1)

\* variant: the copy starts at the start of each slice
WrapStart_Zero(vl0, qi) == 0

\* lines 242-245: where in the slice that starts at vl0 the copy starts
WrapStart(vl0, qi) == IF vl0 <= qi THEN qi - vl0 ELSE 0

\* ReaderWrapper.Read, the loop of lines 236-250: bs with the bytes copied
\* so far, bsi their number
RECURSIVE WrapLoop(_, _, _, _, _, _)
WrapLoop(slices, vi, vl1, bsi, bs, qi) ==
    IF vi > Len(slices) THEN [bsi |-> bsi, bs |-> bs]
    ELSE LET vl0 == vl1
             end == vl1 + Len(slices[vi])
         IN  IF end < qi THEN WrapLoop(slices, vi + 1, end, bsi, bs, qi)
             ELSE LET j == WrapStart(vl0, qi)
                      src == GoSlice(slices[vi], j, Len(slices[vi]))
                      c == Min(Len(bs) - bsi, Len(src))
                      bs2 == GoSlice(bs, 0, bsi) \o GoSlice(src, 0, c)
                                \o GoSlice(bs, bsi + c, Len(bs))
                  IN  IF bsi + c = Len(bs) THEN [bsi |-> bsi + c, bs |-> bs2]
                      ELSE WrapLoop(slices, vi + 1, end, bsi + c, bs2, qi)

\* ReaderWrapper.Read (lines 232-253)
WrapRead(b, qi, bs) ==
    LET r == WrapLoop(b.Slices, 1, 0, 0, bs, qi)
    IN  [n |-> r.bsi, err |-> ErrNone, p |-> r.bs, i |-> qi + r.bsi]

\* ReaderWrapper.Seek (lines 267-278)
WrapSeek(b, qi, i, whence) ==
    LET ni == CASE whence = 1 -> qi + i
                [] whence = 0 -> i
                [] whence = 2 -> SumLen(b.Slices, 1) + i
                [] OTHER -> qi
    IN  [n |-> ni, err |-> ErrNone, i |-> ni]

\* the bytes 1, 2, ..., n: no code of the package looks at the value of a byte
\* except to compare sliceBuf[0] with invalidSliceBuf
Whole(n) == [i \in 1..n |-> i]

\* the ways to cut w into k slices, empty slices allowed anywhere
SlicingsOf(w, k) ==
    IF k = 0 THEN (IF w = <<>> THEN {<<>>} ELSE {})
    ELSE {[i \in 1..k |-> GoSlice(w, IF i = 1 THEN 0 ELSE c[i - 1],
                                     IF i = k THEN Len(w) ELSE c[i])] :
            c \in {d \in [1..(k - 1) -> 0..Len(w)] :
                     \A i \in 1..(k - 2) : d[i] <= d[i + 1]}}

\* the Bytes values: a struct literal with Slices, or FromSlice
AllBytes ==
    {[Slices |-> sl, sliceBuf |-> <<>>] :
        sl \in UNION {SlicingsOf(Whole(n), k) : n \in 0..MaxBytes, k \in 0..MaxSlices}}
    \cup {FromSlice(Whole(n)) : n \in 0..MaxBytes}

\* uuid.NewString() (line 14): a string that a buffer can hold, or one that
\* no buffer of the model holds
UUIDs == {Whole(UuidLen), [i \in 1..UuidLen |-> 0]}

\* the arguments of the calls
Offsets == -1..(MaxBytes + 1)
Sizes == 0..(MaxBytes + 1)
Writers == {NewWriter(k) : k \in 0..MaxSlices}
Buffers == {[i \in 1..n |-> 0] : n \in 0..(MaxBytes + 1)}

\* the record of a call
Called(op, a1, a2, r, p) ==
    [op |-> op, a1 |-> a1, a2 |-> a2, panic |-> r.panic, n |-> r.n, err |-> r.err,
     w |-> r.w, p |-> p, before |-> 0]

\* the accessors leave the Bytes as it is, so one call on each Bytes value,
\* before and after invalidate, shows all that a call can do
Fresh == gres.op \in {"none", "invalidate"}

CallLength ==
    /\ Fresh
    /\ gres' = Called("Length", 0, 0, Length(gb), <<>>)
    /\ UNCHANGED <<invalidSliceBuf, gb, invalidated, rdr, progVars, closer, pemdir, lateVars>>

CallToByteSlice ==
    /\ Fresh
    /\ gres' = Called("ToByteSlice", 0, 0, ToByteSlice(gb), <<>>)
    /\ UNCHANGED <<invalidSliceBuf, gb, invalidated, rdr, progVars, closer, pemdir, lateVars>>

CallAppendToSlice ==
    /\ Fresh
    /\ \E output \in Buffers :
         gres' = Called("AppendToSlice", Len(output), 0, AppendToSlice(gb, output), <<>>)
    /\ UNCHANGED <<invalidSliceBuf, gb, invalidated, rdr, progVars, closer, pemdir, lateVars>>

CallWriteTo ==
    /\ Fresh
    /\ \E w \in Writers : gres' = Called("WriteTo", 0, 0, WriteTo(gb, w), <<>>)
    /\ UNCHANGED <<invalidSliceBuf, gb, invalidated, rdr, progVars, closer, pemdir, lateVars>>

CallAppendSectionTo ==
    /\ Fresh
    /\ \E w \in Writers, offset \in Offsets, size \in Sizes :
         gres' = Called("AppendSectionTo", offset, size,
                        AppendSectionTo(gb, w, offset, size), <<>>)
    /\ UNCHANGED <<invalidSliceBuf, gb, invalidated, rdr, progVars, closer, pemdir, lateVars>>

CallReadAt ==
    /\ Fresh
    /\ \E p \in Buffers, off \in Offsets :
         LET r == ReadAt(gb, p, off)
         IN  gres' = Called("ReadAt", off, Len(p), [r EXCEPT !.p = <<>>] @@ [w |-> NewWriter(0)],
                            r.p)
    /\ UNCHANGED <<invalidSliceBuf, gb, invalidated, rdr, progVars, closer, pemdir, lateVars>>

\* io.ReadAll(b.Reader())
CallReadAll ==
    /\ Fresh
    /\ assertValid(gb)
    /\ \E bufLen \in 1..(MaxBytes + 1) :
         LET r == ReadAllLoop(gb, 0, bufLen, <<>>, MaxBytes + 1)
         IN  gres' = [NoGatherCall EXCEPT !.op = "ReadAll", !.a1 = bufLen, !.err = r.err,
                                          !.w.written = r.data]
    /\ UNCHANGED <<invalidSliceBuf, gb, invalidated, rdr, progVars, closer, pemdir, lateVars>>

\* Reader (lines 164-169): a reader at offset 0
CallReader ==
    /\ Fresh
    /\ IF assertValid(gb)
       THEN /\ rdr' = [rdr EXCEPT !.offset = 0]
            /\ gres' = [NoGatherCall EXCEPT !.op = "Reader"]
       ELSE /\ gres' = [NoGatherCall EXCEPT !.op = "Reader", !.panic = TRUE]
            /\ UNCHANGED rdr
    /\ UNCHANGED <<invalidSliceBuf, gb, invalidated, progVars, closer, pemdir, lateVars>>

\* the owner of the Bytes calls invalidate
Invalidate ==
    /\ ~invalidated
    /\ gb' = invalidate(gb)
    /\ invalidated' = TRUE
    /\ gres' = [NoGatherCall EXCEPT !.op = "invalidate"]
    /\ UNCHANGED <<invalidSliceBuf, rdr, progVars, closer, pemdir, lateVars>>

InitBytes ==
    /\ ProgramIdle
    /\ closer = NoCloser
    /\ PemIdle
    /\ LateIdle
    /\ invalidSliceBuf \in UUIDs
    /\ gb \in AllBytes
    /\ invalidated = FALSE
    /\ rdr = [offset |-> 0, i |-> 0]
    /\ gres = NoGatherCall

NextBytes ==
    \/ CallLength
    \/ CallToByteSlice
    \/ CallAppendToSlice
    \/ CallWriteTo
    \/ CallAppendSectionTo
    \/ CallReadAt
    \/ CallReader
    \/ CallReadAll
    \/ Invalidate

SpecBytes == InitBytes /\ [][NextBytes]_vars

\* Read on the reader of a valid Bytes
ReaderRead ==
    /\ \E buf \in Buffers :
         LET r == Read(gb, rdr.offset, buf)
         IN  /\ rdr' = [rdr EXCEPT !.offset = r.offset]
             /\ gres' = [NoGatherCall EXCEPT !.op = "Read", !.a1 = Len(buf), !.n = r.n,
                                              !.err = r.err, !.p = r.p,
                                              !.before = rdr.offset]
    /\ UNCHANGED <<invalidSliceBuf, gb, invalidated, progVars, closer, pemdir, lateVars>>

\* Seek on the reader of a valid Bytes
ReaderSeek ==
    /\ \E offset \in -(MaxBytes + 1)..(MaxBytes + 1), whence \in Whences :
         LET r == Seek(gb, rdr.offset, offset, whence)
         IN  /\ rdr' = [rdr EXCEPT !.offset = r.offset]
             /\ gres' = [NoGatherCall EXCEPT !.op = "Seek", !.a1 = offset, !.a2 = whence,
                                              !.n = r.n, !.err = r.err,
                                              !.before = rdr.offset]
    /\ UNCHANGED <<invalidSliceBuf, gb, invalidated, progVars, closer, pemdir, lateVars>>

\* b.Reader() of a Bytes that is valid
InitReader ==
    /\ InitBytes
    /\ assertValid(gb)

NextReader ==
    \/ ReaderRead
    \/ ReaderSeek

SpecReader == InitReader /\ [][NextReader]_vars

\* Read on a ReaderWrapper
WrapperRead ==
    /\ \E bs \in Buffers :
         LET r == WrapRead(gb, rdr.i, bs)
         IN  /\ rdr' = [rdr EXCEPT !.i = r.i]
             /\ gres' = [NoGatherCall EXCEPT !.op = "Read", !.a1 = Len(bs), !.n = r.n,
                                              !.err = r.err, !.p = r.p, !.before = rdr.i]
    /\ UNCHANGED <<invalidSliceBuf, gb, invalidated, progVars, closer, pemdir, lateVars>>

\* Seek on a ReaderWrapper, to a position within the data
WrapperSeek ==
    /\ \E i \in -(MaxBytes + 1)..(MaxBytes + 1), whence \in Whences :
         LET r == WrapSeek(gb, rdr.i, i, whence)
         IN  /\ r.i \in 0..SumLen(gb.Slices, 1)
             /\ rdr' = [rdr EXCEPT !.i = r.i]
             /\ gres' = [NoGatherCall EXCEPT !.op = "Seek", !.a1 = i, !.a2 = whence,
                                              !.n = r.n, !.err = r.err, !.before = rdr.i]
    /\ UNCHANGED <<invalidSliceBuf, gb, invalidated, progVars, closer, pemdir, lateVars>>

NextWrapper ==
    \/ WrapperRead
    \/ WrapperSeek

SpecWrapper == InitReader /\ [][NextWrapper]_vars

\* ------------------------------------------------------------------ pems
\* OutputFileExt (line 17) and MaxFileNameCollisionIndex (line 19)
OutputFileExt == "bin"
MaxFileNameCollisionIndex == 1000

\* the types of the PEM blocks
BlockNames == {"CERTIFICATE", "RSA PRIVATE KEY"}

\* lines 48-49: strings.ToLower, then "_" for every space, control and
\* punctuation character
ElidedLower(blknm) ==
    CASE blknm = "CERTIFICATE" -> "certificate"
      [] blknm = "RSA PRIVATE KEY" -> "rsa_private_key"

\* FilenameFromBlockName (lines 46-59)
FilenameFromBlockName(blknm, ext, i) ==
    IF i <= 0 THEN <<ElidedLower(blknm), ".", ext>>
    ELSE <<ElidedLower(blknm), ".", ToString(i), ".", ext>>

\* TryWriteFile (lines 61-72) as the try numbered try of a call: os.OpenFile
\* with O_CREATE|O_EXCL fails with EEXIST when the name is there, and with
\* another error at the try numbered failAt; the error is wrapped by
\* fmt.Errorf with %w
TryWriteFile(names, blknm, ext, i, try, failAt) ==
    LET fnm == FilenameFromBlockName(blknm, ext, i)
    IN  IF try = failAt
        THEN [f |-> <<>>, err |-> [kind |-> "EACCES", wrapped |-> TRUE]]
        ELSE IF fnm \in names
             THEN [f |-> <<>>, err |-> [kind |-> "EEXIST", wrapped |-> TRUE]]
             ELSE [f |-> fnm, err |-> NilError]

\* variant: os.IsExist sees through the wrapping of fmt.Errorf
IsExist_Unwraps(e) == e.kind = "EEXIST"

\* os.IsExist: it looks at the error it is given, and at the error inside an
\* *os.PathError, *os.LinkError or *os.SyscallError; it does not unwrap the
\* error that fmt.Errorf makes
IsExist(e) == e.kind = "EEXIST" /\ ~e.wrapped

\* CreateOutFile, the loop of lines 36-41 after the try with index i
RECURSIVE CreateLoop(_, _, _, _, _, _)
CreateLoop(names, blknm, ext, i, failAt, r) ==
    IF i < MaxFileNameCollisionIndex /\ r.err # NilError /\ IsExist(r.err)
    THEN CreateLoop(names, blknm, ext, i + 1, failAt,
                    TryWriteFile(names, blknm, ext, i + 1, i + 2, failAt))
    ELSE [f |-> r.f, err |-> r.err, tries |-> i + 1]

\* CreateOutFile (lines 30-44)
CreateOutFile(names, blknm, ext, failAt) ==
    CreateLoop(names, blknm, ext, 0, failAt, TryWriteFile(names, blknm, ext, 0, 1, failAt))

\* the names of the files of the model
PemNames == {FilenameFromBlockName(b, OutputFileExt, i) : b \in BlockNames,
                                                           i \in 0..MaxExisting}

\* ExportPEMAsFile (line 84): one CreateOutFile call for a block of the
\* type blknm
CallCreateOutFile ==
    /\ \E blknm \in BlockNames, failAt \in 0..(MaxExisting + 2) :
         LET r == CreateOutFile(pemdir.old \cup pemdir.made, blknm, OutputFileExt, failAt)
         IN  pemdir' = [old |-> pemdir.old,
                        made |-> IF r.f = <<>> THEN pemdir.made ELSE pemdir.made \cup {r.f},
                        res |-> [blknm |-> blknm, f |-> r.f, err |-> r.err,
                                 tries |-> r.tries, failAt |-> failAt]]
    /\ UNCHANGED <<progVars, closer, gatherVars, lateVars>>

InitPems ==
    /\ ProgramIdle
    /\ closer = NoCloser
    /\ GatherIdle
    /\ pemdir \in [old : SUBSET PemNames, made : {{}}, res : {NoPemCall}]
    /\ LateIdle

NextPems == CallCreateOutFile

SpecPems == InitPems /\ [][NextPems]_vars

\* --------------------------------------- the opens of one process
\* variant: every open has a CPU profile of its own
StartCPUProfile_PerOpen(cpu) == TRUE

\* pprof.StartCPUProfile (line 308): one CPU profile per process; the call
\* returns an error when a profile is running
StartCPUProfile(cpu) == cpu = 0

\* StopProfileBuffers (lines 355-368): pprof.StopCPUProfile() when the
\* buffers are configured; it stops the profile of the process
StopProfileBuffers(configured, cpu) == IF configured THEN 0 ELSE cpu

\* variant: st is closed on every failure after its creation
StorageAfterFailure_Closed(e) == "closed"

\* lines 406-409 and 422-425: st after openDirect returned the error e:
\* st.Close(ctx) is called for an error of openWithConfig only
StorageAfterFailure(e) == IF e = ErrOpenWithConfig THEN "closed" ELSE "open"

\* the opener i is now as r
OdSet(i, r, cpu) == od' = [cpu |-> cpu, o |-> [od.o EXCEPT ![i] = r]]

\* lines 397-404: lc.Storage must be set; blob.NewStorage (which can fail)
OdStorage(i) ==
    /\ od.o[i].pc = "idle"
    /\ \E isSet, ok \in BOOLEAN :
         IF ~isSet
         THEN OdSet(i, [od.o[i] EXCEPT !.pc = "failed", !.err = ErrStorageNotSet], od.cpu)
         ELSE IF ~ok
              THEN OdSet(i, [od.o[i] EXCEPT !.pc = "failed", !.err = ErrCannotOpenStorage],
                         od.cpu)
              ELSE OdSet(i, [od.o[i] EXCEPT !.pc = "bufs", !.st = "open"], od.cpu)
    /\ UNCHANGED <<progVars, closer, gatherVars, pemdir, dump, sub>>

\* lines 406-409 with StartProfileBuffers (lines 300-314)
OdBufs(i) ==
    /\ od.o[i].pc = "bufs"
    /\ IF StartCPUProfile(od.cpu)
       THEN OdSet(i, [od.o[i] EXCEPT !.pc = "config", !.configured = TRUE], i)
       ELSE OdSet(i, [od.o[i] EXCEPT !.pc = "failed", !.err = ErrProfileBuffers,
                                      !.st = StorageAfterFailure(ErrProfileBuffers)], od.cpu)
    /\ UNCHANGED <<progVars, closer, gatherVars, pemdir, dump, sub>>

\* lines 411-427: the wrappers and openWithConfig, which returns the
\* repository or an error
OdConfig(i) ==
    /\ od.o[i].pc = "config"
    /\ \E ok \in BOOLEAN :
         IF ok
         THEN OdSet(i, [od.o[i] EXCEPT !.pc = "opened"], od.cpu)
         ELSE OdSet(i, [od.o[i] EXCEPT !.pc = "failed", !.err = ErrOpenWithConfig,
                                        !.st = StorageAfterFailure(ErrOpenWithConfig)], od.cpu)
    /\ UNCHANGED <<progVars, closer, gatherVars, pemdir, dump, sub>>

\* Close of the repository: the early close function of lines 564-567
\* (dr.CloseDebug, which stops the profile buffers of the handle), then the
\* release functions, which close the storage
OdClose(i) ==
    /\ od.o[i].pc = "opened"
    /\ OdSet(i, [od.o[i] EXCEPT !.pc = "closed", !.st = "closed"],
             StopProfileBuffers(od.o[i].configured, od.cpu))
    /\ UNCHANGED <<progVars, closer, gatherVars, pemdir, dump, sub>>

InitOpens ==
    /\ ProgramIdle
    /\ closer = NoCloser
    /\ GatherIdle
    /\ PemIdle
    /\ LateIdle

NextOpens ==
    \/ \E i \in Openers : OdStorage(i)
    \/ \E i \in Openers : OdBufs(i)
    \/ \E i \in Openers : OdConfig(i)
    \/ \E i \in Openers : OdClose(i)

SpecOpens == InitOpens /\ [][NextOpens]_vars

\* ----------------------------------------------------------- DumpPem
\* the Write calls of pem.Encode on pw, each with the number of newlines in
\* its data: up to two lines, or a part of a line; the last one ends a line
ChunkSeqs ==
    {c \in UNION {[1..n -> 0..2] : n \in 1..MaxChunks} : c[Len(c)] >= 1}

\* the lines of the encoded PEM
RECURSIVE LinesOf(_)
LinesOf(c) == IF c = <<>> THEN 0 ELSE c[Len(c)] + LinesOf(SubSeq(c, 1, Len(c) - 1))

\* variant: the loop goes on after a failed write to wrt
AfterPrint_IgnoresWriter(err0, err1) ==
    IF err0 = EOF THEN "break" ELSE "continue"

\* lines 339-348: what the loop does after fmt.Fprint: break at io.EOF,
\* return err0, return err1, or go on
AfterPrint(err0, err1) ==
    IF err0 = EOF THEN "break"
    ELSE IF err0 # ErrNone THEN "return err0"
         ELSE IF err1 # ErrNone THEN "return err1"
              ELSE "continue"

\* lines 330-336, the goroutine: pem.Encode calls pw.Write, which blocks
\* until the reader has taken the data
GoWrite ==
    /\ dump.gpc = "encode"
    /\ dump.gi <= Len(dump.chunks)
    /\ dump' = [dump EXCEPT !.gpc = "writing"]
    /\ UNCHANGED <<progVars, closer, gatherVars, pemdir, od, sub>>

\* line 331, the goroutine: pem.Encode has returned, the deferred pw.Close()
GoClose ==
    /\ dump.gpc = "encode"
    /\ dump.gi > Len(dump.chunks)
    /\ dump' = [dump EXCEPT !.gpc = "done"]
    /\ UNCHANGED <<progVars, closer, gatherVars, pemdir, od, sub>>

\* line 339, rdr.ReadBytes: a line of the buffer; or a read of the pipe,
\* which takes the data of the Write in progress and lets it return; or
\* io.EOF with what is left once pw is closed
MainRead ==
    /\ dump.mpc = "read"
    /\ IF dump.bufLines > 0
       THEN dump' = [dump EXCEPT !.bufLines = dump.bufLines - 1, !.err0 = ErrNone,
                                 !.mpc = "print"]
       ELSE IF dump.gpc = "writing"
            THEN dump' = [dump EXCEPT !.bufLines = dump.chunks[dump.gi],
                                      !.partial = (dump.chunks[dump.gi] = 0),
                                      !.gi = dump.gi + 1,
                                      !.gpc = "encode"]
            ELSE /\ dump.gpc = "done"
                 /\ dump' = [dump EXCEPT !.partial = FALSE, !.err0 = EOF, !.mpc = "print"]
    /\ UNCHANGED <<progVars, closer, gatherVars, pemdir, od, sub>>

\* lines 340-348: fmt.Fprint(wrt, string(ln)), then the tests of err0, err1
MainPrint ==
    /\ dump.mpc = "print"
    /\ LET w == dump.writes + 1
           err1 == IF dump.failAt # 0 /\ w >= dump.failAt THEN ErrWriter ELSE ErrNone
           a == AfterPrint(dump.err0, err1)
       IN  dump' = [dump EXCEPT !.writes = w,
                                !.mpc = IF a = "continue" THEN "read" ELSE "returned",
                                !.res = CASE a = "return err0" -> dump.err0
                                          [] a = "return err1" -> err1
                                          [] OTHER -> ErrNone]
    /\ UNCHANGED <<progVars, closer, gatherVars, pemdir, od, sub>>

\* one call of DumpPem with a writer that fails from its write failAt on
\* (0: never)
InitDump ==
    /\ ProgramIdle
    /\ closer = NoCloser
    /\ GatherIdle
    /\ PemIdle
    /\ OdIdle
    /\ SubIdle
    /\ \E c \in ChunkSeqs, f \in 0..(MaxChunks + 1) :
         dump = [pc |-> "DumpPem", chunks |-> c, failAt |-> f, gpc |-> "encode", gi |-> 1,
                 bufLines |-> 0, partial |-> FALSE, mpc |-> "read", err0 |-> ErrNone,
                 writes |-> 0, res |-> ErrNone]

\* the steps of the encoding goroutine and of the caller's goroutine
GoStep == GoWrite \/ GoClose

MainStep == MainRead \/ MainPrint

NextDump ==
    \/ GoWrite
    \/ GoClose
    \/ MainRead
    \/ MainPrint

SpecDump == InitDump /\ [][NextDump]_vars

\* both goroutines run whenever they can
FairDump == SpecDump /\ WF_vars(GoStep) /\ WF_vars(MainStep)

\* ---------------------------------------------------- App.RunSubcommand
\* make(chan bool, 1) (lines 223 and 295): the buffer of c.simulatedCtrlC
simulatedCtrlCCap == 1

Killers == 1..MaxKills

\* variant: the channel has no buffer
Send_Unbuffered(ch) ==
    IF ch.closed THEN "panic" ELSE "block"

\* a send on a Go channel: it panics on a closed channel, returns when the
\* buffer has room, and blocks otherwise
Send(ch) ==
    IF ch.closed THEN "panic"
    ELSE IF ch.len < simulatedCtrlCCap THEN "ok" ELSE "block"

\* the kill function (lines 266-268 and 334-336): c.simulatedCtrlC <- true
KillSend(k) ==
    LET r == Send(sub.ctrlC)
    IN  sub' = [sub EXCEPT !.k[k] = CASE r = "panic" -> "panicked"
                                      [] r = "ok" -> "returned"
                                      [] OTHER -> "blocked",
                           !.ctrlC.len = IF r = "ok" THEN sub.ctrlC.len + 1
                                         ELSE sub.ctrlC.len]

\* a caller calls the kill function
Kill(k) ==
    /\ sub.k[k] = "idle"
    /\ KillSend(k)
    /\ UNCHANGED <<progVars, closer, gatherVars, pemdir, od, dump>>

\* a blocked send goes on when the buffer has room or the channel is closed
KillWake(k) ==
    /\ sub.k[k] = "blocked"
    /\ Send(sub.ctrlC) # "block"
    /\ KillSend(k)
    /\ UNCHANGED <<progVars, closer, gatherVars, pemdir, od, dump>>

\* the subcommand run by kpapp.Parse takes the simulated Ctrl-C
AppReceive ==
    /\ sub.gpc = "parse"
    /\ sub.ctrlC.len > 0
    /\ sub' = [sub EXCEPT !.ctrlC.len = sub.ctrlC.len - 1]
    /\ UNCHANGED <<progVars, closer, gatherVars, pemdir, od, dump>>

\* the subcommand calls c.exitWithError: the first RunSubcommand keeps the
\* error in exitError (lines 236-238), the second sends it on resultErr
\* (lines 306-308)
SubExit ==
    /\ sub.gpc = "parse"
    /\ ~sub.exited
    /\ sub' = [sub EXCEPT !.exited = TRUE,
                           !.res.len = IF sub.version = 2 THEN sub.res.len + 1 ELSE sub.res.len]
    /\ UNCHANGED <<progVars, closer, gatherVars, pemdir, od, dump>>

\* kpapp.Parse returns (lines 251-260 and 319-323): its error, or in the
\* first RunSubcommand exitError, is sent on resultErr
SubParseDone ==
    /\ sub.gpc = "parse"
    /\ \E perr \in BOOLEAN :
         LET send == perr \/ (sub.version = 1 /\ sub.exited)
         IN  sub' = [sub EXCEPT !.gpc = "defer", !.parsed = TRUE,
                                !.res.len = IF send THEN sub.res.len + 1 ELSE sub.res.len]
    /\ UNCHANGED <<progVars, closer, gatherVars, pemdir, od, dump>>

\* the deferred function: the pipe writers are closed, then close(resultErr)
SubCloseResult ==
    /\ sub.gpc = "defer"
    /\ sub' = [sub EXCEPT !.gpc = "closing", !.res.closed = TRUE]
    /\ UNCHANGED <<progVars, closer, gatherVars, pemdir, od, dump>>

\* the deferred function: close(c.simulatedCtrlC) (lines 245 and 315)
SubCloseCtrlC ==
    /\ sub.gpc = "closing"
    /\ sub' = [sub EXCEPT !.gpc = "done", !.ctrlC.closed = TRUE]
    /\ UNCHANGED <<progVars, closer, gatherVars, pemdir, od, dump>>

\* a caller calls wait()
WaitCall ==
    /\ sub.wpc = "idle"
    /\ sub' = [sub EXCEPT !.wpc = "waiting"]
    /\ UNCHANGED <<progVars, closer, gatherVars, pemdir, od, dump>>

\* wait(): the first RunSubcommand returns what one receive gives (lines
\* 263-265), the second receives until resultErr is closed (327-333)
WaitRecv ==
    /\ sub.wpc = "waiting"
    /\ IF sub.res.len > 0
       THEN sub' = [sub EXCEPT !.res.len = sub.res.len - 1,
                               !.wpc = IF sub.version = 1 THEN "returned" ELSE "waiting"]
       ELSE /\ sub.res.closed
            /\ sub' = [sub EXCEPT !.wpc = "returned"]
    /\ UNCHANGED <<progVars, closer, gatherVars, pemdir, od, dump>>

\* RunSubcommand has returned: the goroutine is about to parse, the channels
\* are empty and open
InitSub ==
    /\ ProgramIdle
    /\ closer = NoCloser
    /\ GatherIdle
    /\ PemIdle
    /\ OdIdle
    /\ DumpIdle
    /\ \E v \in {1, 2} :
         sub = [pc |-> "RunSubcommand", version |-> v, gpc |-> "parse", parsed |-> FALSE,
                exited |-> FALSE,
                ctrlC |-> [len |-> 0, closed |-> FALSE],
                res |-> [len |-> 0, closed |-> FALSE],
                k |-> [i \in Killers |-> "idle"],
                wpc |-> "idle"]

NextSub ==
    \/ \E k \in Killers : Kill(k)
    \/ \E k \in Killers : KillWake(k)
    \/ AppReceive
    \/ SubExit
    \/ SubParseDone
    \/ SubCloseResult
    \/ SubCloseCtrlC
    \/ WaitCall
    \/ WaitRecv

SpecSub == InitSub /\ [][NextSub]_vars

\* C1 as stated: no storage operation is handed to the wrapped storage at a
\* moment at which the repository's upgrade lock intent is locked by an owner
\* other than the handle's UpgradeOwnerID.
C1_NeverDelegatedWhileLocked ==
    [][\A c \in Callers :
         (pc[c] = "pass" /\ pc'[c] = "delegated") => ~ForeignLocked(fmLock, now)]_vars

\* C1 amended: an operation is handed to the wrapped storage only on the
\* strength of a lock check that found the intent not locked by a foreign
\* owner at the now() of that check: its own check, or (fast path, second
\* comparison) the check that recorded the LoadedTime it compared equal to.
C1_DelegatedOnlyAfterFreeCheck ==
    /\ \A c \in Callers : pc[c] \in {"pass", "delegated"} => basisOK[c]
    /\ lastCheckTime # 0 => lastOK

\* C1 witness: an operation is delegated on the fast path while the cached
\* intent is locked by a foreign owner
C1_Witness ==
    \E c \in Callers :
        pc[c] = "delegated" /\ via[c] = "fast" /\ ForeignLocked(fmLock, now)

\* C2: when a caller's check reaches the owner test with a fetched intent that
\* is locked at now() by another owner, the operation fails with
\* ErrRepositoryUnavailableDueToUpgradeInProgress and is never delegated; in
\* every other case of the owner test (the handle is the owner, the intent is
\* nil or not yet locked) the callback returns nil and the operation proceeds.
C2_OwnerTest ==
    [][\A c \in Callers :
         /\ (pc[c] = "decide" /\ pc'[c] # "decide") =>
                IF ForeignLocked(uli[c], now)
                THEN /\ pc'[c] = "failed"
                     /\ err'[c] = ErrRepositoryUnavailableDueToUpgradeInProgress
                ELSE pc'[c] = "pass"
         /\ pc[c] = "failed" => pc'[c] \in {"failed", "idle"}]_vars

\* C2 witness: a caller was refused with the upgrade-in-progress error while
\* the intent it met is still locked by a foreign owner
C2_Witness ==
    \E c \in Callers :
        /\ pc[c] = "failed"
        /\ err[c] = ErrRepositoryUnavailableDueToUpgradeInProgress
        /\ ForeignLocked(fmLock, now)

\* C3 as stated: for one revision (one value of ltime) the intent is fetched
\* at most once, whatever the callers and whatever the result of the check.
C3_OneFetchPerRevision ==
    [][\A c \in Callers :
         (pc[c] = "fetch" /\ pc'[c] # "fetch") => ltime[c] \notin fetched]_vars

\* C3 amended: callers that found the revision stale collapse into the one
\* fetch of a check that succeeds: a caller is past the second comparison
\* (fetching, in the gate or at the owner test) only while it holds the write
\* lock and its ltime is not the recorded lastCheckTime, so no intent fetch is
\* made for a revision a successful check has recorded; a failed check records
\* nothing and the next caller fetches again.
C3_NoFetchForRecordedRevision ==
    \A c \in Callers :
        pc[c] \in {"fetch", "gate", "decide"} =>
            /\ mWriter = c
            /\ ltime[c] # lastCheckTime
            /\ \A d \in Callers \ {c} : pc[d] \notin {"locked", "fetch", "gate", "decide"}

\* C3 witness: a caller that saw the revision stale on the fast path returns
\* at the second comparison, without a fetch, while another caller's operation
\* passed by the check that recorded the revision
C3_Witness ==
    \E c, d \in Callers :
        /\ pc[c] = "pass" /\ via[c] = "recheck"
        /\ pc[d] \in {"pass", "delegated"} /\ via[d] = "check"

HardMissing(R, S) ==
    \E i \in 1..Len(R) : R[i].Feature \notin S /\ ~R[i].Warn

\* C9: for every list R of required features read and every set S of supported
\* features, handleMissingRequiredFeatures returns an error iff the ignore flag
\* is false and some feature of R outside S is not warn-only; otherwise nil.
C9_GateFailsIffHardMissing ==
    (gDone /\ gReadOK) =>
        ((gResult.err # ErrNone) <=> (~gIgnore /\ HardMissing(gRequired, gSupported)))

\* C9 witness: the call returned nil for a list with a warn-only missing feature
\* followed by a supported one, and the warning was logged
C9_Witness ==
    /\ gDone /\ gReadOK /\ ~gIgnore
    /\ Len(gRequired) = 2
    /\ gRequired[1].Feature \notin gSupported /\ gRequired[1].Warn
    /\ gRequired[2].Feature \in gSupported
    /\ gResult = [err |-> ErrNone, warned |-> <<gRequired[1].Feature>>]

\* ======================================================================
\* Claims about openWithConfig (specifications SpecOpen and FairOpen)
\* ======================================================================

\* the open is inside the wait for the upgrade lock
InWait == opc \in {"wait", "attempt", "sleep"}

\* the cached intent is locked now by the owner this open was given
OwnerLocked == IsLocked(fmLock, now) /\ fmLock.OwnerID = upgradeOwnerID

C6_OwnerPassesAtOnce ==
    [][(opc = "attempt" /\ opc' # "attempt" /\ OwnerLocked) =>
         /\ \/ opc' = "monitor" /\ oErr' = ErrNone
            \/ opc' = "failed" /\ oErr' = ErrUpgradeLockIntent
         /\ sleeps' = sleeps
         /\ attempts = 0 => (attempts' = 1 /\ sleeps' = 0)]_vars

\* C6 witness: the owner's open is past the wait after one attempt and no
\* sleep while the intent is locked, without having opted out of waiting
C6_Witness ==
    /\ opc = "monitor" /\ OwnerLocked /\ ~permissive /\ ~doNotWait
    /\ attempts = 1 /\ sleeps = 0

\* C7: an open without DoNotWaitForUpgrade never returns
\* ErrRepositoryUnavailableDueToUpgradeInProgress and never gives up for the
\* number of attempts: from the wait it only goes on, or returns the error of
\* the intent fetch or of the cancelled context; and if from some time on the
\* intent is not locked by a foreign owner, the open leaves the wait.
C7_WaitsUntilReleased ==
    /\ [](opc = "failed" /\ ~doNotWait =>
            oErr \notin {ErrRepositoryUnavailableDueToUpgradeInProgress, ErrRetriesExhausted})
    /\ [][(InWait /\ ~doNotWait /\ opc' = "failed") =>
            oErr' \in {ErrUpgradeLockIntent, ErrCancelled}]_vars
    /\ (<>[]~ForeignLocked(fmLock, now)) =>
          ((InWait /\ ~doNotWait) ~>
              \/ opc = "monitor"
              \/ opc = "failed" /\ oErr \in {ErrUpgradeLockIntent, ErrCancelled})

\* C7 witness: an open that waited (saturated attempt counter, at least one
\* sleep) is past the wait after the lock was released
C7_Witness ==
    /\ opc = "monitor" /\ ~doNotWait /\ ~permissive /\ ~cancelled
    /\ attempts = MaxAttempts /\ sleeps >= 1
    /\ ~ForeignLocked(fmLock, now)

\* C8: once ctx is cancelled while the open sleeps in the backoff or stands at
\* the start of an iteration, the open returns the context's error; and with
\* the intent locked by a foreign owner forever, an open that waits and is
\* cancelled during an attempt returns too, with the context's error or the
\* error of the fetch.
C8_CancelEndsWait ==
    /\ (cancelled /\ opc \in {"sleep", "wait"}) ~> (opc = "failed" /\ oErr = ErrCancelled)
    /\ ([]ForeignLocked(fmLock, now)) =>
          ((cancelled /\ InWait /\ ~doNotWait /\ ~permissive)
              ~> (opc = "failed" /\ oErr \in {ErrCancelled, ErrUpgradeLockIntent}))

\* C8 witness: the open returned the context's error after it had slept
C8_Witness ==
    /\ opc = "failed" /\ oErr = ErrCancelled
    /\ sleeps >= 1 /\ ForeignLocked(fmLock, now)

\* C10: when openWithConfig returns an error of the feature gate, only the
\* metrics wrapper, the metrics registry and the format manager exist: no
\* throttler, no retention wrapper, no monitor, no manager, no attempt of the
\* upgrade-lock wait, and no Put or Delete was issued.
C10_GateBeforeEverything ==
    (opc = "failed" /\ oErr \in {ErrUnsupportedFeature, ErrRequiredFeatures}) =>
        /\ layers = <<"metrics">>
        /\ created = {"registry", "fmgr"}
        /\ attempts = 0 /\ sleeps = 0
        /\ ~mutated

\* C10 witness: the open failed at the gate because of an unsupported feature
C10_Witness ==
    /\ opc = "failed" /\ oErr = ErrUnsupportedFeature
    /\ HardMissing(fmReq, supportedFeatures) /\ ~ignoreMissing

\* ======================================================================
\* Further claims about the upgrade-lock monitor (specification Spec)
\* ======================================================================

\* the errors of handleMissingRequiredFeatures
GateErrors == {ErrUnsupportedFeature, ErrRequiredFeatures}

\* C11: when the feature gate of a caller's re-check fails (a required feature
\* is missing and not warn-only, or the required features cannot be read),
\* onFatalError is called with the gate's error and the same error is returned
\* to the caller of the storage operation, which is not delegated; a gate that
\* passes calls nothing. (onFatalError is a callback that returns.)
C11_FatalAndReturned ==
    [][\A c \in Callers :
         /\ (pc[c] = "gate" /\ pc'[c] # "gate") =>
               /\ (HardMissing(fmReq, supportedFeatures) /\ ~ignoreMissing) =>
                      /\ pc'[c] = "failed"
                      /\ err'[c] \in GateErrors
               /\ pc'[c] = "failed" =>
                      /\ err'[c] \in GateErrors
                      /\ fatalErr'[c] = err'[c]
               /\ pc'[c] # "failed" =>
                      /\ pc'[c] = "decide"
                      /\ fatalErr'[c] = ErrNone /\ err'[c] = ErrNone
         /\ (pc[c] = "failed" /\ err[c] \in GateErrors) =>
               /\ fatalErr[c] = err[c]
               /\ pc'[c] \in {"failed", "idle"}
         /\ (fatalErr[c] # ErrNone /\ pc'[c] # "idle") =>
               (pc[c] = "failed" /\ err[c] = fatalErr[c])]_vars

\* C11 witness: a caller's operation failed with the unsupported-feature error,
\* which onFatalError received, after a reload brought in the feature
C11_Witness ==
    \E c \in Callers :
        /\ pc[c] = "failed"
        /\ err[c] = ErrUnsupportedFeature
        /\ fatalErr[c] = ErrUnsupportedFeature
        /\ HardMissing(fmReq, supportedFeatures)
        /\ fmLoaded > 1

\* ======================================================================
\* Claims about the storage chain (specification SpecDirect)
\* ======================================================================

\* whether an opened repository's configuration asks for the wrapper l
C12_Present(l) ==
    CASE l = "tracing" -> traceStorage
      [] l = "readonly" -> readOnly
      [] l = "retention" -> retention
      [] l = "monitor" -> ~permissive
      [] OTHER -> TRUE

\* the order of the wrappers as C12 states it, from the base store outwards
C12_StatedChain ==
    SelectSeq(<<"metrics", "tracing", "readonly", "throttling", "retention", "monitor">>,
              C12_Present)

\* the order in which the statements of openDirect and openWithConfig wrap st
C12_BuiltChain ==
    SelectSeq(<<"tracing", "readonly", "metrics", "throttling", "retention", "monitor">>,
              C12_Present)

\* C12 as stated: the chain of an opened repository is, from the base store
\* outwards: metrics, tracing (if TraceStorage), read-only (if ReadOnly),
\* throttling, retention (if enabled), monitor (unless PermissiveCacheLoading).
C12_MetricsNextToBase ==
    opc = "opened" => layers = C12_StatedChain

\* C12 as built: the chain of an opened repository is, from the base store
\* outwards: tracing (if TraceStorage), read-only (if ReadOnly), metrics,
\* throttling, retention (if enabled), monitor (unless PermissiveCacheLoading).
C12_MetricsAfterReadOnly ==
    opc = "opened" => layers = C12_BuiltChain

\* C12 witness: a repository opened with every optional wrapper
C12_Witness ==
    /\ opc = "opened"
    /\ traceStorage /\ readOnly /\ retention /\ ~permissive
    /\ Len(layers) = 6

\* ======================================================================
\* Claims about storage calls through the chain (specification SpecChain)
\* ======================================================================

C15_SameApartFromRetention(a, b) ==
    \/ a = b
    \/ /\ retention
       /\ a # Absent /\ b # Absent
       /\ a.DoNotRecreate = b.DoNotRecreate

\* C15: a call that no wrapper rejected returns what the base store alone
\* returns for the caller's call on the content it found (its result, or its
\* own error when the store fails), and leaves the content the base store
\* alone would leave, apart from the retention fields of a blob put under the
\* retention wrapper; a rejected call leaves the content as it was.
C15_ChainRefinesBase ==
    /\ (call.phase = "done" /\ call.by = "base") =>
          \E ok \in BOOLEAN :
             LET b == BaseApply(call.before, call.op, call.id, call.orig, ok)
             IN  /\ call.res = b.res
                 /\ \A i \in ChainIDs : C15_SameApartFromRetention(store[i], b.store[i])
    /\ call.by \notin {"", "base"} =>
          /\ store = call.before
          /\ call.res.err \in {ErrReadOnly, ErrCancelled,
                               ErrRepositoryUnavailableDueToUpgradeInProgress}

\* C15 witness: with every wrapper but the read-only one, a Delete of a blob
\* the store does not hold came back with the base store's not-found error
C15_Witness ==
    /\ traceStorage /\ ~readOnly /\ retention /\ ~permissive
    /\ call.phase = "done" /\ call.by = "base"
    /\ call.op = "Delete"
    /\ call.res.err = ErrBlobNotFound

\* ======================================================================
\* Claims about the retention wrapper (specification SpecRetention)
\* ======================================================================

\* the blob id starts with a pack-blob prefix, the V0 index prefix, the epoch
\* uber-prefix, the repository format blob id or the blob-cfg blob id
C14_Protected(id) ==
    \/ Len(id) >= 1 /\ id[1] \in {"p", "q", "n", "x"}
    \/ Len(id) >= 2 /\ id[1] = "kopia." /\ id[2] \in {"repository", "blobcfg"}

\* the options the base store has to see for the call in flight
C14_Expected ==
    IF call.op = "Put" /\ C14_Protected(call.id)
    THEN [RetentionMode |-> "COMPLIANCE", RetentionPeriod |-> 30,
          DoNotRecreate |-> call.orig.DoNotRecreate]
    ELSE call.orig

\* C14: with the retention wrapper, a Put to an id with a protected prefix is
\* handed to the base store with RetentionMode and RetentionPeriod of the blob
\* configuration (set before the base store is called, the other options as
\* the caller gave them) and stored so; a Put to any other id, and every
\* other call, reaches the base store with the caller's options.
C14_RetentionOnProtectedPut ==
    /\ (call.phase = "down" /\ call.pos = 0) => call.opts = C14_Expected
    /\ (call.by = "base" /\ call.op = "Put" /\ call.res.err = ErrNone) =>
          /\ store[call.id] = C14_Expected
          /\ \A i \in BlobIDs \ {call.id} : store[i] = Absent
    /\ call.by \in {"", "base"}

\* C14 witness: a Put to the blob-cfg blob id with retention options of the
\* caller's own was stored with the configured mode and period
C14_Witness ==
    /\ call.phase = "done" /\ call.op = "Put"
    /\ call.id = <<"kopia.", "blobcfg">>
    /\ call.orig = [RetentionMode |-> "GOVERNANCE", RetentionPeriod |-> 7,
                    DoNotRecreate |-> TRUE]
    /\ store[call.id] = [RetentionMode |-> "COMPLIANCE", RetentionPeriod |-> 30,
                         DoNotRecreate |-> TRUE]

\* ======================================================================
\* Claims about the throttling limits (specification SpecDirect)
\* ======================================================================

\* the store's connection info cannot be marshalled or parsed into limits
C17_Unparsable == ~ciCfg.marshalOK \/ ~ciCfg.parseOK

\* C16: once open has created the throttler, the limits in effect are the
\* override of ClientOptions.Throttling when there is one, whatever the store
\* advertises, and otherwise the limits of the store's connection info (the
\* zero limits when those cannot be parsed).
C16_OverrideWins ==
    "throttler" \in created =>
        limits = IF override.set THEN override.limits
                 ELSE IF C17_Unparsable THEN ZeroLimits
                 ELSE ciCfg.limits

\* C16 witness: a repository opened with an override that leaves at zero a
\* rate the store advertises
C16_Witness ==
    /\ opc = "opened"
    /\ override.set /\ ~C17_Unparsable
    /\ override.limits = [ReadsPerSecond |-> 1, WritesPerSecond |-> 0]
    /\ ciCfg.limits = [ReadsPerSecond |-> 0, WritesPerSecond |-> 1]
    /\ limits = override.limits

\* C17: when the store's connection info cannot be marshalled or parsed (and
\* there is no override), the limits are the zero limits, whatever was parsed
\* before the error, the throttler is created with them, and open does not
\* fail at the throttler.
C17_UnparsableMeansNoLimit ==
    /\ C17_Unparsable => throttlingLimitsFromConnectionInfo(ciCfg) = ZeroLimits
    /\ (C17_Unparsable /\ ~override.set) =>
          /\ oErr # ErrThrottler
          /\ "throttler" \in created => limits = ZeroLimits
          /\ opc \in {"blobcfg", "wait", "attempt", "monitor", "managers", "finish",
                      "opened"} => "throttler" \in created

\* C17 witness: a repository opened over a store whose connection info broke
\* off at a negative rate has the zero limits
C17_Witness ==
    /\ opc = "opened"
    /\ ciCfg.marshalOK /\ ~ciCfg.parseOK /\ ~override.set
    /\ ciCfg.limits.ReadsPerSecond = -1
    /\ limits = ZeroLimits

\* a step of UpdateLimits (a call that changes nothing at all is a stutter)
UpdateStep == upd' # upd \/ limits' # limits \/ cfgFile' # cfgFile

CallbackErrors == {ErrLoadConfig, ErrWriteConfig}

\* C18: when UpdateLimits is called with valid limits and the persistence
\* callback fails (the config file cannot be loaded or written), the limits
\* passed are the limits in effect after the call, the error of the callback
\* is the result of UpdateLimits and the Throttling entry of the config file
\* is what it was; when the callback failed at loading the config file, the
\* file was not written.
C18_CallbackFailure ==
    [][(UpdateStep /\ upd'.cb \in CallbackErrors) =>
          /\ limits' = upd'.arg
          /\ upd'.err = upd'.cb
          /\ cfgFile' = cfgFile
          /\ (upd'.cb = ErrLoadConfig => ~upd'.wrote)]_vars

\* C18 happens: a call whose callback failed at loading left new limits in
\* effect that the config file does not hold
C18_Witness ==
    /\ upd.cb = ErrLoadConfig
    /\ upd.err = ErrLoadConfig
    /\ limits = upd.arg
    /\ ~upd.wrote
    /\ (~cfgFile.set \/ cfgFile.limits # limits)
    /\ limits # ZeroLimits
C20_CacheSecretDerivation ==
    /\ \A i \in 1..Len(secrets) :
          /\ secrets[i].master = IF fmKeys.SupportsPasswordChange
                                 THEN fmKeys.HmacSecret
                                 ELSE fmKeys.FormatEncryptionKey
          /\ secrets[i].salt = fmKeys.UniqueID
          /\ secrets[i].purpose = "local-cache-integrity"
          /\ secrets[i].length = 16
    /\ \A i, j \in 1..Len(secrets) : secrets[i] = secrets[j]

\* C20 happens: a format without password change whose two keys differ was
\* opened twice
C20_Witness ==
    /\ Len(secrets) = 2
    /\ ~fmKeys.SupportsPasswordChange
    /\ fmKeys.HmacSecret # fmKeys.FormatEncryptionKey
    /\ opc = "opened"
\* how often the closer ran the function fn
TimesRun(fn) == Cardinality({i \in 1..Len(closer.ran) : closer.ran[i] = fn})

AllCloseFuncs == {ReleaseOrder[i] : i \in 1..Len(ReleaseOrder)}

\* the release is over: the Close that ran it has returned
Released == closer.releaser # 0 /\ closer.hstate[closer.releaser] = "closed"

\* C21: no release function runs more than once however often Close is
\* called; a second Close on a handle returns what the first Close on it
\* returned; and once the release is over every release function has run
\* exactly once, also when others failed, and the result of the Close that ran
\* them holds the failure of each one that failed.
C21_CloseTwice ==
    /\ \A fn \in AllCloseFuncs : TimesRun(fn) <= 1
    /\ \A h \in Handles : closer.calls[h] >= 2 => closer.last[h] = closer.first[h]
    /\ Released =>
          /\ \A fn \in AllCloseFuncs : TimesRun(fn) = 1
          /\ {closer.first[closer.releaser][i] :
                 i \in 1..Len(closer.first[closer.releaser])} = closer.failing

\* C21 happens: of three functions the second failed, the first and the third
\* ran all the same, and Close was called twice on the handle and returned
\* that failure both times
C21_Witness ==
    /\ Released
    /\ closer.failing = {ReleaseOrder[2]}
    /\ closer.ran = ReleaseOrder
    /\ closer.calls[closer.releaser] = 2
    /\ closer.last[closer.releaser] = <<ReleaseOrder[2]>>

\* C22: with handles created and closed in any order, a release function has
\* run only if the reference count is zero and no handle is open, it has run
\* at most once, the count is the number of open handles, and the Close that
\* brings the count to zero is the one that releases.
C22_ReleasedAtZero ==
    /\ closer.refs = Cardinality({h \in Handles : closer.hstate[h] = "open"})
    /\ closer.ran # <<>> => closer.refs = 0
    /\ \A fn \in AllCloseFuncs : TimesRun(fn) <= 1
    /\ closer.refs = 0 <=> closer.releaser # 0

\* C22 happens: three handles were closed, the last of them released, and a
\* handle closed earlier got nil
C22_Witness ==
    /\ Released
    /\ closer.ran = ReleaseOrder
    /\ \A h \in Handles : closer.hstate[h] = "closed"
    /\ closer.failing # {}
    /\ \E h \in Handles : h # closer.releaser /\ closer.first[h] = <<>>
\* the byte sequence that the slices of gb hold together
GatherWhole ==
    Whole(Cardinality(UNION {{gb.Slices[i][j] : j \in 1..Len(gb.Slices[i])} :
                               i \in 1..Len(gb.Slices)}))

\* a Write call of the last call failed
WriteFailed == gres.w.failAt \in 1..gres.w.writes

\* the last call was made on a Bytes that was not invalidated and got past
\* assertValid
ValidCall == ~invalidated /\ ~gres.panic

\* C23: for every way to cut a byte sequence W into slices, empty ones
\* included, the Bytes with these slices has Length() = len(W) and
\* ToByteSlice() = W, io.ReadAll of its Reader() gives W without an error, and
\* WriteTo(w) writes W and returns len(W) when no Write of w fails and returns
\* the error of w when one does. (A Bytes that assertValid refuses is the
\* matter of C27.)
C23_SameAsWhole ==
    ValidCall =>
      /\ gres.op = "Length" => gres.n = Len(GatherWhole)
      /\ gres.op = "ToByteSlice" => gres.w.written = GatherWhole
      /\ gres.op = "ReadAll" => gres.err = ErrNone /\ gres.w.written = GatherWhole
      /\ gres.op = "WriteTo" =>
            IF WriteFailed THEN gres.err = ErrWriter
            ELSE /\ gres.err = ErrNone
                 /\ gres.w.written = GatherWhole
                 /\ gres.n = Len(GatherWhole)

\* C23 happens: WriteTo wrote three bytes cut into three slices, one of them
\* empty
C23_Witness ==
    /\ ValidCall
    /\ gres.op = "WriteTo"
    /\ Len(gb.Slices) = 3
    /\ gb.Slices[2] = <<>>
    /\ gres.n = 3
    /\ gres.w.written = <<1, 2, 3>>

\* C24: for every slicing of W and 0 <= i <= j <= len(W),
\* AppendSectionTo(w, i, j-i) writes W[i:j] and returns nil when no Write of
\* w fails; a negative offset returns an error and writes nothing; when j > i
\* and w fails from its first Write on, the error of w is returned, as is
\* the error of any Write that failed.
C24_SectionOfWhole ==
    (ValidCall /\ gres.op = "AppendSectionTo") =>
      /\ gres.a1 < 0 =>
            gres.err = ErrInvalidOffset /\ gres.w.writes = 0 /\ gres.w.written = <<>>
      /\ (gres.a1 >= 0 /\ gres.a1 + gres.a2 <= Len(GatherWhole) /\ ~WriteFailed) =>
            /\ gres.err = ErrNone
            /\ gres.w.written = SubSeq(GatherWhole, gres.a1 + 1, gres.a1 + gres.a2)
      /\ (gres.a1 >= 0 /\ gres.a1 + gres.a2 <= Len(GatherWhole) /\ gres.a2 > 0
             /\ gres.w.failAt = 1) => gres.err = ErrWriter
      /\ (gres.a1 >= 0 /\ WriteFailed) => gres.err = ErrWriter

\* C24 happens: a section that starts inside the first slice and ends in the
\* third, across an empty slice
C24_Witness ==
    /\ ValidCall
    /\ gres.op = "AppendSectionTo"
    /\ gb.Slices = << <<1, 2>>, <<>>, <<3>> >>
    /\ gres.a1 = 1
    /\ gres.a2 = 2
    /\ gres.err = ErrNone
    /\ gres.w.written = <<2, 3>>

\* where a Seek was meant to go
SeekTarget ==
    CASE gres.a2 = 0 -> gres.a1
      [] gres.a2 = 1 -> gres.before + gres.a1
      [] gres.a2 = 2 -> Len(GatherWhole) + gres.a1
      [] OTHER -> gres.before

\* C25: after any Read and Seek calls on the reader of a Bytes the offset is
\* at least 0 and at most Length(); a Seek from the start, the current offset
\* or the end to a target below 0 or above Length() returns an error and
\* leaves the offset where it was; a Read at offset = Length() into a buffer
\* that is not empty returns io.EOF.
C25_OffsetWithinLength ==
    /\ rdr.offset >= 0
    /\ rdr.offset <= Len(GatherWhole)
    /\ (gres.op = "Seek" /\ gres.a2 \in {0, 1, 2}
          /\ (SeekTarget < 0 \/ SeekTarget > Len(GatherWhole))) =>
            gres.err # ErrNone /\ rdr.offset = gres.before
    /\ (gres.op = "Read" /\ gres.before = Len(GatherWhole) /\ gres.a1 > 0) =>
            gres.err = EOF /\ gres.n = 0

\* C25 happens: a Seek from the current offset past the end was refused and
\* the offset stayed inside the data
C25_Witness ==
    /\ gres.op = "Seek"
    /\ gres.a2 = 1
    /\ gres.before = 2
    /\ SeekTarget = Len(GatherWhole) + 1
    /\ gres.err = ErrInvalidSeek
    /\ rdr.offset = 2

\* the number of bytes of the buffer that the last call wrote
Copied == Cardinality({i \in 1..Len(gres.p) : gres.p[i] # 0})

\* C26 as stated: ReadAt(p, off) returns as n the number of bytes copied into
\* p, and when fewer than len(p) bytes are there at off it returns n < len(p)
\* with an error.
C26_ReaderAtContract ==
    (ValidCall /\ gres.op = "ReadAt" /\ gres.a1 >= 0) =>
      /\ gres.n = Copied
      /\ gres.a1 + gres.a2 > Len(GatherWhole) =>
            gres.n < gres.a2 /\ gres.err # ErrNone

\* C26, what the code does: ReadAt(p, off) with off >= 0 copies the bytes of
\* W from off up to len(p) of them, as many as there are, returns len(p) as
\* n whatever it copied, and returns no error.
C26_AlwaysLenP ==
    (ValidCall /\ gres.op = "ReadAt" /\ gres.a1 >= 0) =>
      /\ gres.n = gres.a2
      /\ gres.err = ErrNone
      /\ Copied = Min(gres.a2, Len(GatherWhole) - Min(gres.a1, Len(GatherWhole)))
      /\ SubSeq(gres.p, 1, Copied) = SubSeq(GatherWhole, gres.a1 + 1, gres.a1 + Copied)

\* C26 happens: a ReadAt of three bytes at offset 1 of two bytes copied one
\* byte and returned 3 and nil
C26_Witness ==
    /\ ValidCall
    /\ gres.op = "ReadAt"
    /\ GatherWhole = <<1, 2>>
    /\ gres.a1 = 1
    /\ gres.a2 = 3
    /\ gres.p = <<2, 0, 0>>
    /\ gres.n = 3
    /\ gres.err = ErrNone

Accessors == {"Reader", "Length", "ReadAt", "AppendSectionTo", "AppendToSlice",
              "ToByteSlice", "WriteTo"}

\* C27 as stated: every accessor of a Bytes that was invalidated panics, and
\* no accessor of a Bytes that was never invalidated panics.
C27_PanicsIffInvalidated ==
    gres.op \in Accessors => (gres.panic <=> invalidated)

\* C27, what the code does: every accessor of a Bytes that was invalidated
\* panics; an accessor of a Bytes that was never invalidated panics exactly
\* when the Bytes was made by FromSlice from bytes equal to invalidSliceBuf.
C27_PanicsIffSentinel ==
    gres.op \in Accessors =>
      /\ invalidated => gres.panic
      /\ gres.panic <=> gb.sliceBuf = invalidSliceBuf
      /\ (~invalidated /\ gres.panic) => gb = FromSlice(invalidSliceBuf)

\* C27 happens: Length panicked on a Bytes that was never invalidated
C27_Witness ==
    /\ ~invalidated
    /\ gres.op = "Length"
    /\ gres.panic
    /\ gb = FromSlice(Whole(UuidLen))

\* C28: a Read(bs) of a ReaderWrapper at a position pos with
\* 0 <= pos <= len(W) returns n = min(len(bs), len(W) - pos) and nil, has put
\* W[pos:pos+n] into bs[:n] wherever the slices end, has left bs[n:] as
\* it was, and has moved the position on by n.
C28_WrapperRead ==
    gres.op = "Read" =>
      /\ gres.n = Min(gres.a1, Len(GatherWhole) - gres.before)
      /\ gres.err = ErrNone
      /\ SubSeq(gres.p, 1, gres.n) = SubSeq(GatherWhole, gres.before + 1, gres.before + gres.n)
      /\ \A k \in (gres.n + 1)..Len(gres.p) : gres.p[k] = 0
      /\ Len(gres.p) = gres.a1
      /\ rdr.i = gres.before + gres.n

\* C28 happens: a Read from the middle of the first slice into the second
C28_Witness ==
    /\ gres.op = "Read"
    /\ gb.Slices = << <<1, 2>>, <<3>> >>
    /\ gres.before = 1
    /\ gres.a1 = 3
    /\ gres.n = 2
    /\ gres.p = <<2, 3, 0>>
    /\ rdr.i = 3
\* the names that were in the directory when the last call began
NamesBefore == (pemdir.old \cup pemdir.made) \ {pemdir.res.f}

\* the least collision index whose name was free when the last call began
FreeIndex ==
    CHOOSE k \in 0..(MaxExisting + 1) :
      /\ FilenameFromBlockName(pemdir.res.blknm, "bin", k) \notin NamesBefore
      /\ \A j \in 0..(k - 1) :
            FilenameFromBlockName(pemdir.res.blknm, "bin", j) \in NamesBefore

\* C29 as stated: when the names of the indexes 0..k-1 of a block are in the
\* directory and k is at most 1000, CreateOutFile creates and returns the
\* file of index k and overwrites no file; it fails only after more than
\* 1000 collisions or on an error that is not a collision.
C29_NextFreeIndex ==
    pemdir.res.blknm # "" =>
      /\ pemdir.made \cap pemdir.old = {}
      /\ pemdir.res.failAt \notin 1..(FreeIndex + 1) =>
            /\ pemdir.res.err = NilError
            /\ pemdir.res.f = FilenameFromBlockName(pemdir.res.blknm, "bin", FreeIndex)

\* C29, what the code does: CreateOutFile tries the name of index 0 and
\* nothing else: it creates and returns that file when the name is free and
\* os.OpenFile has no other error, and returns the wrapped error of
\* os.OpenFile otherwise; it overwrites no file.
C29_OnlyIndexZero ==
    pemdir.res.blknm # "" =>
      /\ pemdir.made \cap pemdir.old = {}
      /\ pemdir.res.tries = 1
      /\ IF FreeIndex = 0 /\ pemdir.res.failAt # 1
         THEN /\ pemdir.res.err = NilError
              /\ pemdir.res.f = FilenameFromBlockName(pemdir.res.blknm, "bin", 0)
         ELSE /\ pemdir.res.f = <<>>
              /\ pemdir.res.err.kind = (IF pemdir.res.failAt = 1 THEN "EACCES" ELSE "EEXIST")

\* C29 happens: the name of index 0 was taken, the name of index 1 was free,
\* and CreateOutFile returned the collision as its error after one try
C29_Witness ==
    /\ pemdir.res.blknm = "CERTIFICATE"
    /\ FreeIndex = 1
    /\ pemdir.res.failAt = 0
    /\ pemdir.res.err.kind = "EEXIST"
    /\ pemdir.res.f = <<>>
    /\ pemdir.res.tries = 1
\* C30: a caller that compares under the read lock while LoadedTime equals
\* lastCheckTime passes with nil in that step, and its next step is the
\* delegation: the step issues no intent fetch, reports no fatal error (the
\* feature gate is not run), leaves lastCheckTime alone, and the write lock
\* is neither held nor taken by it; other callers may hold the read lock
\* meanwhile.
C30_FastPathDelegates ==
    [][\A c \in Callers :
         /\ (pc[c] = "rlocked" /\ lastCheckTime = fmLoaded /\ pc'[c] # pc[c]) =>
               /\ pc'[c] = "pass" /\ via'[c] = "fast"
               /\ err'[c] = ErrNone
               /\ fetched' = fetched /\ uli' = uli /\ fetchRev' = fetchRev
               /\ fatalErr' = fatalErr
               /\ lastCheckTime' = lastCheckTime
               /\ mWriter = 0 /\ mWriter' = 0
         /\ (pc[c] = "pass" /\ via[c] = "fast" /\ pc'[c] # pc[c]) =>
               /\ pc'[c] = "delegated"
               /\ fetched' = fetched /\ fatalErr' = fatalErr
               /\ mWriter # c /\ mWriter' = mWriter]_vars

\* C30 happens: after a check recorded a revision, one caller has passed on
\* the fast path and waits for its delegation while every other caller holds
\* the read lock in front of the same comparison
C30_Witness ==
    /\ NumCallers >= 2
    /\ lastCheckTime # 0
    /\ lastCheckTime = fmLoaded
    /\ \E c \in Callers :
         /\ pc[c] = "pass" /\ via[c] = "fast"
         /\ mReaders = Callers \ {c}
         /\ \A d \in Callers \ {c} : pc[d] = "rlocked"
\* the callers inside the part of the callback that runs under m.Lock()
InCheck == {c \in Callers : pc[c] \in {"locked", "fetch", "gate", "decide"}}

\* C31: at most one caller is in the check section, and it is the holder of
\* the write lock; at most one intent fetch is in flight; and while a caller
\* is in the check section no caller holds the read lock, under which the
\* fast path reads lastCheckTime.
C31_OneChecker ==
    /\ Cardinality(InCheck) <= 1
    /\ \A c \in Callers : c \in InCheck <=> mWriter = c
    /\ Cardinality({c \in Callers : pc[c] = "fetch"}) <= 1
    /\ \A c \in Callers : c \in mReaders <=> pc[c] = "rlocked"
    /\ InCheck # {} => mReaders = {}

\* C31 happens: one caller is at its intent fetch while every other caller
\* found the revision stale and waits for the write lock
C31_Witness ==
    /\ NumCallers >= 2
    /\ \E c \in Callers :
         /\ pc[c] = "fetch"
         /\ \A d \in Callers \ {c} : pc[d] = "wantLock"
\* the callers whose UpgradeLockIntent fetch (line 658) or read of the
\* required features (line 663) is in progress
InIO == {c \in Callers : pc[c] \in {"fetch", "gate"}}

\* C32 as stated: the write lock is not held across the intent fetch and the
\* read of the required features: while either is in progress for one
\* caller, m.RLock() of another caller proceeds.
C32_NotHeldAcrossIO ==
    InIO # {} => CanRLock(mWriter)

\* C32, what the code does: the caller holds the write lock from m.Lock()
\* to its return, so during its intent fetch and its read of the required
\* features m.RLock() and m.Lock() of every other caller wait: no other
\* caller is at the fast-path comparison or in the check section.
C32_HeldAcrossIO ==
    \A c \in InIO :
        /\ mWriter = c
        /\ ~CanRLock(mWriter)
        /\ ~CanLock(mReaders, mWriter)
        /\ \A d \in Callers \ {c} : pc[d] \notin {"rlocked", "locked", "fetch", "gate", "decide"}

\* C32 happens: one caller is at the read of the required features, after
\* its intent fetch, and every other caller is in front of m.RLock()
C32_Witness ==
    /\ NumCallers >= 2
    /\ \E c \in Callers :
         /\ pc[c] = "gate"
         /\ ltime[c] \in fetched
         /\ \A d \in Callers \ {c} : pc[d] = "idle" /\ ~CanRLock(mWriter)
\* C33: an attempt of the wait is followed by the backoff sleep only when the
\* intent is locked at now() by another owner, the cache loading is not
\* permissive and the caller did not opt out; an attempt whose fetch failed
\* ends the open with that error, with no sleep, for both values of
\* DoNotWaitForUpgrade; the upgrade-in-progress error ends the open only for
\* a caller that opted out.
C33_OnlyUpgradeWaitRetried ==
    [][(opc = "attempt" /\ opc' # "attempt") =>
         /\ opc' = "sleep" =>
               /\ ~doNotWait /\ ~permissive
               /\ IsLocked(fmLock, now) /\ upgradeOwnerID # fmLock.OwnerID
         /\ opc' # "sleep" => sleeps' = sleeps
         /\ opc' = "failed" =>
               /\ oErr' \in {ErrUpgradeLockIntent,
                              ErrRepositoryUnavailableDueToUpgradeInProgress}
               /\ oErr' = ErrRepositoryUnavailableDueToUpgradeInProgress => doNotWait
         /\ oErr' = ErrUpgradeLockIntent => opc' = "failed"]_vars

\* C33 happens: a caller that would wait for an upgrade has its open fail
\* with the error of the intent fetch at the first attempt, without a sleep
C33_Witness ==
    /\ opc = "failed"
    /\ oErr = ErrUpgradeLockIntent
    /\ ~doNotWait
    /\ attempts = 1
    /\ sleeps = 0
\* C34: a check that ends with an error (of the intent fetch, of the feature
\* gate, or the refusal because of a foreign lock) leaves lastCheckTime as it
\* was and different from LoadedTime, so the comparison of the next operation
\* fails and the check is run again; lastCheckTime changes only in the step
\* in which a caller passes the owner test, and to that caller's ltime.
C34_RecordedOnlyOnSuccess ==
    [][/\ \A c \in Callers :
            (pc[c] \in {"fetch", "gate", "decide"} /\ pc'[c] = "failed") =>
               /\ err'[c] \in {ErrUpgradeLockIntent, ErrRequiredFeatures, ErrUnsupportedFeature,
                                ErrRepositoryUnavailableDueToUpgradeInProgress}
               /\ lastCheckTime' = lastCheckTime
               /\ ~FirstCheck(lastCheckTime', fmLoaded')
       /\ lastCheckTime' # lastCheckTime =>
            \E c \in Callers :
               /\ pc[c] = "decide" /\ pc'[c] = "pass"
               /\ err'[c] = ErrNone
               /\ lastCheckTime' = ltime[c]]_vars

\* C34 happens: after a check of the current revision failed, a caller is in
\* the check section again, about to fetch the intent for the same revision
C34_Witness ==
    \E c \in Callers :
        /\ pc[c] = "fetch"
        /\ ltime[c] = fmLoaded
        /\ ltime[c] \in fetched
        /\ lastCheckTime # fmLoaded
\* C35: lastCheckTime starts as the zero time, which no LoadedTime equals,
\* and is afterwards a revision for which an intent fetch was made; no
\* caller has passed the callback before the first intent fetch; a caller
\* passes the callback either at the owner test of its own check (after its
\* fetch and the feature gate, the intent not locked by another owner at
\* now()), which records its ltime, or at a comparison that finds LoadedTime
\* equal to a lastCheckTime recorded by such a check; and only a caller that
\* passed is delegated.
C35_DelegatedOnlyAfterCheck ==
    /\ lastCheckTime = 0
    /\ [](/\ fmLoaded # 0
          /\ lastCheckTime # 0 => lastCheckTime \in fetched
          /\ \A c \in Callers : pc[c] \in {"pass", "delegated"} => fetched # {})
    /\ [][\A c \in Callers :
            /\ (pc'[c] = "pass" /\ pc[c] # "pass") =>
                  IF pc[c] = "decide"
                  THEN /\ via'[c] = "check"
                       /\ ltime[c] \in fetched
                       /\ ~RefusedByLock(uli[c], now, upgradeOwnerID)
                       /\ lastCheckTime' = ltime[c]
                  ELSE /\ pc[c] \in {"rlocked", "locked"}
                       /\ via'[c] \in {"fast", "recheck"}
                       /\ lastCheckTime = fmLoaded
                       /\ lastCheckTime \in fetched
            /\ (pc'[c] = "delegated" /\ pc[c] # "delegated") => pc[c] = "pass"]_vars

\* C35 happens: the first operation on the handle is delegated after its own
\* check, the only fetch so far, while the intent is about to lock for
\* another owner
C35_Witness ==
    \E c \in Callers :
        /\ pc[c] = "delegated" /\ via[c] = "check"
        /\ fetched = {fmLoaded}
        /\ lastCheckTime = fmLoaded
        /\ \A d \in Callers \ {c} : pc[d] = "idle"
        /\ ~fmLock.nil /\ fmLock.OwnerID # upgradeOwnerID /\ fmLock.LockTime > now
\* the wrapper l is one of the wrappers around the base storage
HasLayer(l) == \E i \in 1..Len(layers) : layers[i] = l

\* C36: Open returns ErrCannotWriteToRepoConnectionWithPermissiveCacheLoading
\* for a permissive connection that is not read-only, with no storage
\* created; a handle that Open returned without the monitor was opened
\* permissive (its open made no lock check) and has the read-only wrapper;
\* and no step of a call on such a handle changes the base store, whether
\* the intent is locked or not: a Put or Delete comes back from a wrapper.
C36_PermissiveIsReadOnly ==
    /\ [][(opc = "open" /\ opc' # "open" /\ permissive /\ ~readOnly) =>
             /\ opc' = "dfailed"
             /\ oErr' \in {ErrLoadConfig,
                            ErrCannotWriteToRepoConnectionWithPermissiveCacheLoading}
             /\ ~baseOpen']_vars
    /\ []((permissive /\ ~readOnly) => (~baseOpen /\ opc \in {"open", "dfailed"}))
    /\ []((opc = "opened" /\ ~HasLayer("monitor")) =>
             /\ permissive
             /\ HasLayer("readonly"))
    /\ [][(opc = "opened" /\ permissive) => store' = store]_vars
    /\ []((opc = "opened" /\ permissive /\ call.op \in Mutating) => call.by # "base")

\* C36 happens: a handle opened permissive and read-only while bob holds the
\* upgrade lock had a Put refused by the read-only wrapper
C36_Witness ==
    /\ opc = "opened"
    /\ permissive /\ readOnly
    /\ IsLocked(fmLock, now) /\ fmLock.OwnerID = "bob"
    /\ ~HasLayer("monitor") /\ HasLayer("readonly")
    /\ call.op = "Put" /\ call.phase = "done"
    /\ call.by = "readonly" /\ call.res.err = ErrReadOnly
\* the openers whose openDirect returned an error after st was created
FailedLate == {i \in Openers : od.o[i].pc = "failed" /\ od.o[i].st # "none"}

\* C37 as stated: after openDirect returned an error, the base storage it
\* created is closed and the CPU profile it started is stopped.
C37_FailedOpenHoldsNothing ==
    \A i \in FailedLate : od.o[i].st = "closed" /\ od.cpu # i

\* C37, what the code does: when StartProfileBuffers fails, openDirect
\* returns with the storage open and no profile of its own; when
\* openWithConfig fails, it returns with the storage closed and its CPU
\* profile running.
C37_FailedOpenHoldsOne ==
    \A i \in FailedLate :
        IF od.o[i].err = ErrProfileBuffers
        THEN od.o[i].st = "open" /\ ~od.o[i].configured /\ od.cpu # i
        ELSE /\ od.o[i].err = ErrOpenWithConfig
             /\ od.o[i].st = "closed" /\ od.o[i].configured /\ od.cpu = i

\* C37 happens: an open failed in openWithConfig and left its profile
\* running, and the next open failed at StartProfileBuffers and left its
\* storage open
C37_Witness ==
    \E i, j \in Openers :
        /\ od.o[i].pc = "failed" /\ od.o[i].err = ErrOpenWithConfig /\ od.cpu = i
        /\ od.o[j].pc = "failed" /\ od.o[j].err = ErrProfileBuffers /\ od.o[j].st = "open"

\* C38 as stated: StartProfileBuffers of an open succeeds whatever the other
\* opens of the process have done: an open does not fail because another
\* open is in progress, has a handle that is not closed, or has failed.
C38_OpensIndependent ==
    [][\A i \in Openers :
         (od.o[i].pc = "bufs" /\ od'.o[i].pc # "bufs") => od'.o[i].pc = "config"]_vars

\* C38, what the code does: the opens of a process share its one CPU
\* profile: at most one open is past StartProfileBuffers with its handle
\* not closed, and it holds the profile; an open that failed in
\* openWithConfig holds it for good; every other open that reaches
\* StartProfileBuffers meanwhile fails with ErrProfileBuffers.
C38_OneOpenAtATime ==
    /\ [](/\ Cardinality({i \in Openers : od.o[i].pc \in {"config", "opened"}}) <= 1
          /\ \A i \in Openers :
                /\ od.o[i].pc \in {"config", "opened"} => od.cpu = i
                /\ (od.o[i].pc = "failed" /\ od.o[i].err = ErrOpenWithConfig) => od.cpu = i)
    /\ [][\A i \in Openers :
            (od.o[i].pc = "bufs" /\ od'.o[i].pc # "bufs") =>
               IF od.cpu = 0
               THEN od'.o[i].pc = "config"
               ELSE od'.o[i].pc = "failed" /\ od'.o[i].err = ErrProfileBuffers]_vars

\* C38 happens: an open failed at StartProfileBuffers while the handle of
\* another open is in use
C38_Witness ==
    \E i, j \in Openers :
        /\ od.o[i].pc = "opened" /\ od.cpu = i
        /\ od.o[j].pc = "failed" /\ od.o[j].err = ErrProfileBuffers
\* DumpPem has returned and the goroutine has data to write that nobody reads
GoStuck ==
    /\ dump.mpc = "returned"
    /\ dump.gpc = "writing" \/ (dump.gpc = "encode" /\ dump.gi <= Len(dump.chunks))

\* C39 as stated: for every writer DumpPem returns and the encoding
\* goroutine ends.
C39_BothEnd ==
    /\ <>(dump.mpc = "returned")
    /\ <>(dump.gpc = "done")

\* C39, what the code does: DumpPem always returns. It returns the error of
\* the writer iff the writer fails at one of the lines before the end of the
\* data, and nil otherwise; returning nil it has read the pipe to its end
\* and the goroutine has ended; returning the error it stops reading, and
\* the goroutine ends only if it had no Write left to make.
C39_EndsUnlessWriterFails ==
    /\ <>(dump.mpc = "returned")
    /\ <>(dump.gpc = "done" \/ dump.res = ErrWriter)
    /\ [](dump.mpc = "returned" =>
            /\ dump.res = (IF dump.failAt \in 1..LinesOf(dump.chunks)
                           THEN ErrWriter ELSE ErrNone)
            /\ dump.res = ErrNone => dump.gpc = "done"
            /\ dump.res = ErrWriter => dump.writes = dump.failAt)
    /\ [](GoStuck => [](GoStuck /\ dump.res = ErrWriter))

\* C39 happens: the writer failed at the first line, DumpPem returned its
\* error, and the goroutine is blocked in a Write on the pipe
C39_Witness ==
    /\ dump.pc = "DumpPem"
    /\ dump.mpc = "returned"
    /\ dump.res = ErrWriter
    /\ dump.failAt = 1
    /\ dump.gpc = "writing"
    /\ dump.gi = Len(dump.chunks)
\* C40 as stated: no call of the kill function panics, whenever it is made,
\* and wait() returns only after kpapp.Parse has returned.
C40_KillNeverPanics ==
    /\ \A k \in Killers : sub.k[k] # "panicked"
    /\ sub.wpc = "returned" => sub.parsed

\* C40, what the code does: a call of the kill function returns at once
\* while c.simulatedCtrlC is open and its buffer of one is empty, blocks
\* when the buffer is full, and panics once the goroutine's deferred
\* function has closed the channel, which wakes the blocked calls into the
\* same panic; wait() returns only after kpapp.Parse has returned and
\* resultErr holds a value or is closed.
C40_KillPanicsAfterClose ==
    /\ [](/\ \A k \in Killers :
                sub.k[k] = "panicked" => (sub.ctrlC.closed /\ sub.gpc = "done")
          /\ sub.ctrlC.len <= simulatedCtrlCCap
          /\ sub.wpc = "returned" => sub.parsed)
    /\ [][\A k \in Killers :
            (sub.k[k] = "idle" /\ sub'.k[k] # "idle") =>
               sub'.k[k] = (IF sub.ctrlC.closed THEN "panicked"
                            ELSE IF sub.ctrlC.len = 0 THEN "returned" ELSE "blocked")]_vars

\* C40 happens: the subcommand has finished, wait() has returned, and a call
\* of the kill function made after that panicked, after an earlier call had
\* returned
C40_Witness ==
    /\ sub.pc = "RunSubcommand"
    /\ sub.gpc = "done"
    /\ sub.wpc = "returned"
    /\ sub.ctrlC.closed /\ sub.ctrlC.len = 0
    /\ \E i, j \in Killers : sub.k[i] = "returned" /\ sub.k[j] = "panicked"
====
